---- MODULE Spec2Model ----
(***************************************************************************)
(* mouse_forms: the tokenizer (src/token.rs), the document model and its   *)
(* attribute validation (src/models.rs) and the tree builder              *)
(* (src/parser.rs).                                                        *)
(*                                                                         *)
(* Representation.  A Rust String that carries data (element text, an      *)
(* attribute value, a language tag) is a sequence of one-character         *)
(* strings, so that concatenation, splitting and number parsing are        *)
(* computed character by character.  Element names and attribute names,    *)
(* which the code only compares with literals, are TLA+ strings.           *)
(* Option<T> is a sequence of length at most one: None is << >> and        *)
(* Some(x) is <<x>>.  Result<T, E> is a record with the field ok.          *)
(***************************************************************************)
EXTENDS Integers, Sequences, FiniteSets, TLC

None == << >>

Some(x) == <<x>>

IsSome(o) == o # << >>

Unwrap(o) == o[1]

Ok(v) == [ok |-> TRUE, val |-> v]

Err(e) == [ok |-> FALSE, err |-> e]

\* A string literal of the source that is only carried along (an error
\* context), kept whole as a one-element sequence.
Lit(s) == <<s>>

\* Language tags and text values used as inputs.
EN == <<"e", "n">>

FR == <<"f", "r">>

STAR == <<"*">>

TextA == <<"a">>

TextB == <<"b">>

N1 == <<"n", "1">>

N2 == <<"n", "2">>

(***************************************************************************)
(* src/models/error.rs                                                     *)
(***************************************************************************)
MismatchedTags(closing) ==
    [kind |-> "MismatchedTags", open_tag |-> None, closing_tag |-> closing]

InvalidAttribute(name, context) ==
    [kind |-> "InvalidAttribute", attribute_name |-> name, context |-> context]

InvalidFieldType(t) == [kind |-> "InvalidFieldType", invalid_type |-> t]

InvalidGroupType(t) == [kind |-> "InvalidGroupType", invalid_type |-> t]

OrphanElement(context) == [kind |-> "OrphanElement", context |-> context]

UnnamedElement(context) == [kind |-> "UnnamedElement", context |-> context]

ImproperNesting(context) == [kind |-> "ImproperNesting", context |-> context]

(***************************************************************************)
(* Number parsing: str::parse::<u16>().  An optional leading '+', then one *)
(* or more decimal digits, value at most u16::MAX.                         *)
(***************************************************************************)
U16Max == 65535

Digits == {"0", "1", "2", "3", "4", "5", "6", "7", "8", "9"}

DigitVal(c) ==
    CASE c = "0" -> 0 [] c = "1" -> 1 [] c = "2" -> 2 [] c = "3" -> 3
      [] c = "4" -> 4 [] c = "5" -> 5 [] c = "6" -> 6 [] c = "7" -> 7
      [] c = "8" -> 8 [] c = "9" -> 9

RECURSIVE DigitsValue(_, _)
\* Accumulates the digits left to right; -1 on overflow past u16::MAX.
DigitsValue(s, acc) ==
    IF s = << >> THEN acc
    ELSE LET v == acc * 10 + DigitVal(Head(s))
         IN  IF v > U16Max THEN -1 ELSE DigitsValue(Tail(s), v)

\* Mutant of ParseU16: a value past u16::MAX is taken as 0.
ParseU16Wraps(s) ==
    LET body == IF s # << >> /\ Head(s) = "+" THEN Tail(s) ELSE s
    IN  IF body = << >> \/ \E i \in 1..Len(body) : body[i] \notin Digits
        THEN Err("ParseIntError")
        ELSE LET v == DigitsValue(body, 0)
             IN  IF v < 0 THEN Ok(0) ELSE Ok(v)

ParseU16(s) ==
    LET body == IF s # << >> /\ Head(s) = "+" THEN Tail(s) ELSE s
    IN  IF body = << >> \/ \E i \in 1..Len(body) : body[i] \notin Digits
        THEN Err("ParseIntError")
        ELSE LET v == DigitsValue(body, 0)
             IN  IF v < 0 THEN Err("ParseIntError") ELSE Ok(v)

RECURSIVE SplitOn(_, _, _)
\* str::split(sep): the pieces between separators, empty pieces included.
SplitOn(s, sep, cur) ==
    IF s = << >> THEN <<cur>>
    ELSE IF Head(s) = sep THEN <<cur>> \o SplitOn(Tail(s), sep, << >>)
    ELSE SplitOn(Tail(s), sep, Append(cur, Head(s)))

(***************************************************************************)
(* src/models.rs                                                           *)
(***************************************************************************)
Attr(n, v) == [name |-> n, value |-> v]

FormNew ==
    [title |-> None, unlisted |-> FALSE, description |-> None,
     meta_description |-> None, dir_description |-> None,
     embedded_scripts |-> << >>, category |-> None, instructions |-> None,
     link |-> None, index |-> U16Max, stylesheet |-> None, sections |-> << >>,
     language |-> None, keywords |-> None]

ElementAttributesNew ==
    [requires |-> None, optional |-> FALSE, optional_if |-> None, class |-> None]

\* Mutant of TryApply: an unknown attribute name is ignored.
TryApplyLenient(self, attribute_name, value, context) ==
    CASE attribute_name = "requires" -> Ok([self EXCEPT !.requires = Some(value)])
      [] attribute_name = "optional" -> Ok([self EXCEPT !.optional = TRUE])
      [] attribute_name = "optional-if" -> Ok([self EXCEPT !.optional_if = Some(value)])
      [] attribute_name = "class" -> Ok([self EXCEPT !.class = Some(value)])
      [] OTHER -> Ok(self)

TryApply(self, attribute_name, value, context) ==
    CASE attribute_name = "requires" -> Ok([self EXCEPT !.requires = Some(value)])
      [] attribute_name = "optional" -> Ok([self EXCEPT !.optional = TRUE])
      [] attribute_name = "optional-if" -> Ok([self EXCEPT !.optional_if = Some(value)])
      [] attribute_name = "class" -> Ok([self EXCEPT !.class = Some(value)])
      [] OTHER -> Err(InvalidAttribute(attribute_name, context))

RECURSIVE SectionLoop(_, _)
\* The attribute loop of Section::try_from; acc holds the locals.
SectionLoop(attributes, acc) ==
    IF attributes = << >> THEN Ok(acc)
    ELSE LET a == Head(attributes)
         IN  IF a.name = "name"
             THEN SectionLoop(Tail(attributes), [acc EXCEPT !.name = Some(a.value)])
             ELSE LET r == TryApply(acc.self_attributes, a.name, a.value,
                                    Lit("section; attribute is unrecognized"))
                  IN  IF r.ok
                      THEN SectionLoop(Tail(attributes),
                                       [acc EXCEPT !.self_attributes = r.val])
                      ELSE r

\* Mutant of SectionTryFrom: the name is looked for before the attributes
\* are checked.
SectionTryFromNameFirst(attributes) ==
    LET r == SectionLoop(attributes,
                         [name |-> None, self_attributes |-> ElementAttributesNew])
    IN  IF \A i \in 1..Len(attributes) : attributes[i].name # "name"
        THEN Err(UnnamedElement(Lit("section must have a name")))
        ELSE IF ~r.ok THEN r
        ELSE Ok([name |-> Unwrap(r.val.name), title |-> None,
                 instructions |-> None, elements |-> << >>,
                 attributes |-> r.val.self_attributes])

SectionTryFrom(attributes) ==
    LET r == SectionLoop(attributes,
                         [name |-> None, self_attributes |-> ElementAttributesNew])
    IN  IF ~r.ok THEN r
        ELSE IF r.val.name = None
        THEN Err(UnnamedElement(Lit("section must have a name")))
        ELSE Ok([name |-> Unwrap(r.val.name), title |-> None,
                 instructions |-> None, elements |-> << >>,
                 attributes |-> r.val.self_attributes])

GroupTypeTryFrom(s) ==
    CASE s = <<"r", "o", "w">> -> Ok("Row")
      [] s = <<"s", "u", "b", "s", "e", "c", "t", "i", "o", "n">> -> Ok("Subsection")
      [] s = << >> -> Ok("Row")
      [] OTHER -> Err(InvalidGroupType(s))

RECURSIVE GroupLoop(_, _)
GroupLoop(attributes, acc) ==
    IF attributes = << >> THEN Ok(acc)
    ELSE LET a == Head(attributes)
         IN  CASE a.name = "name" ->
                    GroupLoop(Tail(attributes), [acc EXCEPT !.name = Some(a.value)])
               [] a.name = "type" ->
                    LET t == GroupTypeTryFrom(a.value)
                    IN  IF t.ok
                        THEN GroupLoop(Tail(attributes),
                                       [acc EXCEPT !.group_type = Some(t.val)])
                        ELSE t
               [] OTHER ->
                    LET r == TryApply(acc.self_attributes, a.name, a.value, Lit("field"))
                    IN  IF r.ok
                        THEN GroupLoop(Tail(attributes),
                                       [acc EXCEPT !.self_attributes = r.val])
                        ELSE r
\* Mutant of GroupTryFrom: a group must have a name, as a section must.
GroupTryFromNamed(attributes) ==
    LET r == GroupLoop(attributes,
                       [name |-> None, group_type |-> None,
                        self_attributes |-> ElementAttributesNew])
    IN  IF ~r.ok THEN r
        ELSE IF r.val.name = None
        THEN Err(UnnamedElement(Lit("group must have a name")))
        ELSE Ok([name |-> Unwrap(r.val.name),
                 group_type |-> IF r.val.group_type = None THEN "Row"
                                ELSE Unwrap(r.val.group_type),
                 title |-> None, instructions |-> None,
                 attributes |-> r.val.self_attributes, members |-> << >>])


GroupTryFrom(attributes) ==
    LET r == GroupLoop(attributes,
                       [name |-> None, group_type |-> None,
                        self_attributes |-> ElementAttributesNew])
    IN  IF ~r.ok THEN r
        ELSE Ok([name |-> IF r.val.name = None THEN << >> ELSE Unwrap(r.val.name),
                 group_type |-> IF r.val.group_type = None THEN "Row"
                                ELSE Unwrap(r.val.group_type),
                 title |-> None, instructions |-> None,
                 attributes |-> r.val.self_attributes, members |-> << >>])

FieldTypeNames ==
    [Text |-> <<"t", "e", "x", "t">>,
     Number |-> <<"n", "u", "m", "b", "e", "r">>,
     Date |-> <<"d", "a", "t", "e">>,
     Checkbox |-> <<"c", "h", "e", "c", "k", "b", "o", "x">>,
     Select |-> <<"s", "e", "l", "e", "c", "t">>,
     MultiSelect |-> <<"m", "u", "l", "t", "i", "-", "s", "e", "l", "e", "c", "t">>,
     File |-> <<"f", "i", "l", "e">>,
     Image |-> <<"i", "m", "a", "g", "e">>,
     TextArea |-> <<"t", "e", "x", "t", "a", "r", "e", "a">>,
     Email |-> <<"e", "m", "a", "i", "l">>,
     Tel |-> <<"t", "e", "l">>,
     Url |-> <<"u", "r", "l">>,
     Grid |-> <<"g", "r", "i", "d">>]

FieldTypeTryFrom(s) ==
    IF \E k \in DOMAIN FieldTypeNames : FieldTypeNames[k] = s
    THEN Ok(CHOOSE k \in DOMAIN FieldTypeNames : FieldTypeNames[k] = s)
    ELSE Err(InvalidFieldType(s))

RECURSIVE RowsLoop(_, _, _)
RowsLoop(cells, result, s) ==
    IF cells = << >> THEN Ok(result)
    ELSE LET dim == ParseU16(Head(cells))
         IN  IF dim.ok THEN RowsLoop(Tail(cells), Append(result, dim.val), s)
             ELSE Err(InvalidAttribute("rows",
                        Lit("could not parse the value of rows attribute: ") \o s))

ParseRows(s) == RowsLoop(SplitOn(s, " ", << >>), << >>, s)

RECURSIVE FieldLoop(_, _)
FieldLoop(attributes, acc) ==
    IF attributes = << >> THEN Ok(acc)
    ELSE LET a == Head(attributes)
             rest == Tail(attributes)
         IN  CASE a.name = "name" ->
                    FieldLoop(rest, [acc EXCEPT !.name = Some(a.value)])
               [] a.name = "type" ->
                    LET t == FieldTypeTryFrom(a.value)
                    IN  IF t.ok
                        THEN FieldLoop(rest, [acc EXCEPT !.field_type = Some(t.val)])
                        ELSE t
               [] a.name = "placeholder" ->
                    FieldLoop(rest, [acc EXCEPT !.placeholder = Some(a.value)])
               [] a.name = "rows" ->
                    LET rw == ParseRows(a.value)
                    IN  IF rw.ok THEN FieldLoop(rest, [acc EXCEPT !.rows = rw.val])
                        ELSE rw
               [] a.name = "length" ->
                    LET n == ParseU16(a.value)
                    IN  IF n.ok THEN FieldLoop(rest, [acc EXCEPT !.length = n.val])
                        ELSE Err(InvalidAttribute("length",
                                   Lit("field; length should be a whole number")))
               [] OTHER ->
                    LET r == TryApply(acc.self_attributes, a.name, a.value,
                                      Lit("field; unrecognized attribute"))
                    IN  IF r.ok
                        THEN FieldLoop(rest, [acc EXCEPT !.self_attributes = r.val])
                        ELSE r
\* Mutant of FieldTryFrom: a field written without a type is a Text field.
FieldTryFromDefaultText(attributes) ==
    LET r == FieldLoop(attributes,
                       [name |-> None, self_attributes |-> ElementAttributesNew,
                        field_type |-> None, placeholder |-> None, length |-> 0,
                        rows |-> << >>])
    IN  IF ~r.ok THEN r
        ELSE IF r.val.name = None
        THEN Err(UnnamedElement(Lit("field must have a name")))
        ELSE Ok([name |-> Unwrap(r.val.name),
                 field_type |-> IF r.val.field_type = None THEN "Text"
                                ELSE Unwrap(r.val.field_type),
                 instructions |-> None, length |-> r.val.length,
                 rows |-> r.val.rows, label |-> None,
                 placeholder |-> r.val.placeholder,
                 attributes |-> r.val.self_attributes, options |-> << >>])


FieldTryFrom(attributes) ==
    LET r == FieldLoop(attributes,
                       [name |-> None, self_attributes |-> ElementAttributesNew,
                        field_type |-> None, placeholder |-> None, length |-> 0,
                        rows |-> << >>])
    IN  IF ~r.ok THEN r
        ELSE IF r.val.name = None
        THEN Err(UnnamedElement(Lit("field must have a name")))
        ELSE IF r.val.field_type = None
        THEN Err(InvalidFieldType(Lit("fields must have a type")))
        ELSE Ok([name |-> Unwrap(r.val.name),
                 field_type |-> Unwrap(r.val.field_type),
                 instructions |-> None, length |-> r.val.length,
                 rows |-> r.val.rows, label |-> None,
                 placeholder |-> r.val.placeholder,
                 attributes |-> r.val.self_attributes, options |-> << >>])

RECURSIVE FieldOptionLoop(_, _)
FieldOptionLoop(attributes, acc) ==
    IF attributes = << >> THEN Ok(acc)
    ELSE LET a == Head(attributes)
         IN  CASE a.name = "name" ->
                    FieldOptionLoop(Tail(attributes),
                                    [acc EXCEPT !.name = Some(a.value)])
               [] a.name = "lang" -> FieldOptionLoop(Tail(attributes), acc)
               [] OTHER ->
                    LET r == TryApply(acc.self_attributes, a.name, a.value, Lit("field"))
                    IN  IF r.ok
                        THEN FieldOptionLoop(Tail(attributes),
                                             [acc EXCEPT !.self_attributes = r.val])
                        ELSE r

\* Mutant of FieldOptionTryFrom: a missing name defaults to the empty
\* string, as it does for a group.
FieldOptionTryFromUnnamed(attributes) ==
    LET r == FieldOptionLoop(attributes,
                             [name |-> None,
                              self_attributes |-> ElementAttributesNew])
    IN  IF ~r.ok THEN r
        ELSE Ok([name |-> IF r.val.name = None THEN << >> ELSE Unwrap(r.val.name),
                 label |-> None, attributes |-> r.val.self_attributes])

FieldOptionTryFrom(attributes) ==
    LET r == FieldOptionLoop(attributes,
                             [name |-> None,
                              self_attributes |-> ElementAttributesNew])
    IN  IF ~r.ok THEN r
        ELSE IF r.val.name = None
        THEN Err(UnnamedElement(Lit("option must have a name")))
        ELSE Ok([name |-> Unwrap(r.val.name), label |-> None,
                 attributes |-> r.val.self_attributes])

(***************************************************************************)
(* src/token.rs: the Token enum.  Every token is a record of one shape;    *)
(* the fields a variant does not have are empty.                           *)
(***************************************************************************)
Tok(kind, characters, lang, attributes, position) ==
    [kind |-> kind, characters |-> characters, lang |-> lang,
     attributes |-> attributes, position |-> position]

\* Category, Description, DirDescription, MetaDescription, Instructions,
\* Title, Label, Keywords { characters, lang }
LangTok(kind, characters, lang) == Tok(kind, characters, lang, << >>, 0)

\* Link, Script, Style, ImplicitLabel { characters }
TextTok(kind, characters) == Tok(kind, characters, None, << >>, 0)

\* Option, Field, Group, Section { attributes }
StartTok(kind, attributes) == Tok(kind, << >>, None, attributes, 0)

\* OptionEnd, FieldEnd, GroupEnd, SectionEnd, Unlisted, None
UnitTok(kind) == Tok(kind, << >>, None, << >>, 0)

IndexTok(position) == Tok("Index", << >>, None, << >>, position)

LangKinds ==
    {"Category", "Description", "MetaDescription", "DirDescription",
     "Keywords", "Instructions", "Label", "Title"}

StartKinds == {"Section", "Group", "Field", "Option"}

EndKinds == {"SectionEnd", "GroupEnd", "FieldEnd", "OptionEnd"}

(***************************************************************************)
(* State.  tb is the TokenBuffer (src/token.rs); events is the event       *)
(* stream of the markup reader, ev_pos the number of events dispatched and *)
(* path the reader's stack of open elements.  language .. skip_option      *)
(* are the Parser (src/parser.rs) and the local of parse; token is the     *)
(* loop variable of parse, pos the number of tokens it has consumed and    *)
(* outcome the value parse returned (None while it runs).  builds is the   *)
(* caller's record of the calls of Parser::parse that have returned, in    *)
(* order: the target language of each call and the value it returned.      *)
(***************************************************************************)
VARIABLES pc, events, ev_pos, path, tb, builds,
          language, form, current_section, current_group, current_field,
          current_option, skip_option, token, pos, outcome

\* What no step of Parser::parse writes: the reader, the TokenBuffer and
\* the caller's record.
tokvars == <<events, ev_pos, path, tb, builds>>

parservars ==
    <<language, form, current_section, current_group, current_field,
      current_option, skip_option, token, pos, outcome>>

vars == <<pc, events, ev_pos, path, tb, builds, language, form, current_section,
          current_group, current_field, current_option, skip_option, token,
          pos, outcome>>

slots == <<current_section, current_group, current_field, current_option>>

TokenBufferNew ==
    [tokens |-> << >>, alternates |-> << >>, characters |-> None,
     lang |-> None, instructions |-> None, language |-> None]

(***************************************************************************)
(* src/parser.rs                                                           *)
(***************************************************************************)
\* Parser::new
ParserNew(target) ==
    /\ language = target
    /\ form = [FormNew EXCEPT !.language = target]
    /\ current_section = None
    /\ current_group = None
    /\ current_field = None
    /\ current_option = None
    /\ skip_option = FALSE
    /\ token = UnitTok("None")
    /\ pos = 0
    /\ outcome = None

\* Mutant of NewParser: form.language is left as Form::new made it.
NewParserNoLanguage(target) ==
    /\ language' = target
    /\ form' = FormNew
    /\ current_section' = None
    /\ current_group' = None
    /\ current_field' = None
    /\ current_option' = None
    /\ skip_option' = FALSE
    /\ token' = UnitTok("None")
    /\ pos' = 0
    /\ outcome' = None

\* Mutant of NewParser: the Form of the previous Parser is used again.
NewParserKeepsForm(target) ==
    /\ language' = target
    /\ form' = [form EXCEPT !.language = target]
    /\ current_section' = None
    /\ current_group' = None
    /\ current_field' = None
    /\ current_option' = None
    /\ skip_option' = FALSE
    /\ token' = UnitTok("None")
    /\ pos' = 0
    /\ outcome' = None

\* Parser::new called by a driver that has run before: every field of the
\* new Parser, and the local skip_option of its parse, start afresh.
NewParser(target) ==
    /\ language' = target
    /\ form' = [FormNew EXCEPT !.language = target]
    /\ current_section' = None
    /\ current_group' = None
    /\ current_field' = None
    /\ current_option' = None
    /\ skip_option' = FALSE
    /\ token' = UnitTok("None")
    /\ pos' = 0
    /\ outcome' = None

\* Mutant of LangMatches: the lang.is_none() disjunct is dropped.
LangMatchesExact(self_language, lang) == self_language = lang

LangMatches(self_language, lang) == lang = None \/ self_language = lang

\* Mutant of Continue: the loop does not move past the token.
ContinueRevisits(t) ==
    /\ token' = t
    /\ pos' = pos
    /\ UNCHANGED <<pc, language, outcome>>

\* A handler that finished without `?` returning: the loop goes on.
Continue(t) ==
    /\ token' = t
    /\ pos' = pos + 1
    /\ UNCHANGED <<pc, language, outcome>>

\* Mutant of Fail: the error is noted and the loop goes on.
FailGoesOn(t, e) ==
    /\ token' = t
    /\ pos' = pos + 1
    /\ outcome' = Some(Err(e))
    /\ UNCHANGED <<pc, language>>

\* `?` on an Err: parse returns it and the Parser is dropped.
Fail(t, e) ==
    /\ token' = t
    /\ pos' = pos + 1
    /\ outcome' = Some(Err(e))
    /\ pc' = "done"
    /\ UNCHANGED language

SetSlot(slot, field, value) == Some([Unwrap(slot) EXCEPT ![field] = value])

ParseNone(t) ==
    /\ t.kind = "None"
    /\ Continue(t)
    /\ UNCHANGED <<form, slots, skip_option>>

ParseUnlisted(t) ==
    /\ t.kind = "Unlisted"
    /\ form' = [form EXCEPT !.unlisted = TRUE]
    /\ Continue(t)
    /\ UNCHANGED <<slots, skip_option>>

ParseCategory(t) ==
    /\ t.kind = "Category"
    /\ form' = IF LangMatches(language, t.lang)
               THEN [form EXCEPT !.category = Some(t.characters)]
               ELSE form
    /\ Continue(t)
    /\ UNCHANGED <<slots, skip_option>>

\* Mutant of ParseDescription: a description sets only its own field.
ParseDescriptionOwn(t) ==
    /\ t.kind = "Description"
    /\ form' = IF LangMatches(language, t.lang)
               THEN [form EXCEPT !.description = Some(t.characters)]
               ELSE form
    /\ Continue(t)
    /\ UNCHANGED <<slots, skip_option>>

ParseDescription(t) ==
    /\ t.kind = "Description"
    /\ form' = IF LangMatches(language, t.lang)
               THEN [form EXCEPT !.dir_description = Some(t.characters),
                                 !.meta_description = Some(t.characters),
                                 !.description = Some(t.characters)]
               ELSE form
    /\ Continue(t)
    /\ UNCHANGED <<slots, skip_option>>

ParseMetaDescription(t) ==
    /\ t.kind = "MetaDescription"
    /\ form' = IF LangMatches(language, t.lang)
               THEN [form EXCEPT !.meta_description = Some(t.characters)]
               ELSE form
    /\ Continue(t)
    /\ UNCHANGED <<slots, skip_option>>

ParseDirDescription(t) ==
    /\ t.kind = "DirDescription"
    /\ form' = IF LangMatches(language, t.lang)
               THEN [form EXCEPT !.dir_description = Some(t.characters)]
               ELSE form
    /\ Continue(t)
    /\ UNCHANGED <<slots, skip_option>>
\* Mutant of ParseKeywords: the keywords also become the instructions of
\* the open field.
ParseKeywordsOnField(t) ==
    /\ t.kind = "Keywords"
    /\ form' = IF LangMatches(language, t.lang)
               THEN [form EXCEPT !.keywords = Some(t.characters)]
               ELSE form
    /\ current_field' = IF LangMatches(language, t.lang) /\ IsSome(current_field)
                        THEN SetSlot(current_field, "instructions", Some(t.characters))
                        ELSE current_field
    /\ Continue(t)
    /\ UNCHANGED <<current_section, current_group, current_option, skip_option>>


ParseKeywords(t) ==
    /\ t.kind = "Keywords"
    /\ form' = IF LangMatches(language, t.lang)
               THEN [form EXCEPT !.keywords = Some(t.characters)]
               ELSE form
    /\ Continue(t)
    /\ UNCHANGED <<slots, skip_option>>
\* Mutant of ParseInstructions: the open group is looked at before the
\* open field.
ParseInstructionsGroupFirst(t) ==
    /\ t.kind = "Instructions"
    /\ IF ~LangMatches(language, t.lang)
       THEN UNCHANGED <<form, slots>>
       ELSE IF IsSome(current_group)
       THEN /\ current_group' = SetSlot(current_group, "instructions", Some(t.characters))
            /\ UNCHANGED <<form, current_section, current_field, current_option>>
       ELSE IF IsSome(current_field)
       THEN /\ current_field' = SetSlot(current_field, "instructions", Some(t.characters))
            /\ UNCHANGED <<form, current_section, current_group, current_option>>
       ELSE IF IsSome(current_section)
       THEN /\ current_section' = SetSlot(current_section, "instructions", Some(t.characters))
            /\ UNCHANGED <<form, current_group, current_field, current_option>>
       ELSE /\ form' = [form EXCEPT !.instructions = Some(t.characters)]
            /\ UNCHANGED slots
    /\ Continue(t)
    /\ UNCHANGED skip_option


ParseInstructions(t) ==
    /\ t.kind = "Instructions"
    /\ IF ~LangMatches(language, t.lang)
       THEN UNCHANGED <<form, slots>>
       ELSE IF IsSome(current_field)
       THEN /\ current_field' = SetSlot(current_field, "instructions", Some(t.characters))
            /\ UNCHANGED <<form, current_section, current_group, current_option>>
       ELSE IF IsSome(current_group)
       THEN /\ current_group' = SetSlot(current_group, "instructions", Some(t.characters))
            /\ UNCHANGED <<form, current_section, current_field, current_option>>
       ELSE IF IsSome(current_section)
       THEN /\ current_section' = SetSlot(current_section, "instructions", Some(t.characters))
            /\ UNCHANGED <<form, current_group, current_field, current_option>>
       ELSE /\ form' = [form EXCEPT !.instructions = Some(t.characters)]
            /\ UNCHANGED slots
    /\ Continue(t)
    /\ UNCHANGED skip_option

ParseLabel(t) ==
    /\ t.kind = "Label"
    /\ IF ~LangMatches(language, t.lang)
       THEN UNCHANGED <<form, slots>>
       ELSE IF IsSome(current_option)
       THEN /\ current_option' = SetSlot(current_option, "label", Some(t.characters))
            /\ UNCHANGED <<form, current_section, current_group, current_field>>
       ELSE IF IsSome(current_field)
       THEN /\ current_field' = SetSlot(current_field, "label", Some(t.characters))
            /\ UNCHANGED <<form, current_section, current_group, current_option>>
       ELSE UNCHANGED <<form, slots>>
    /\ Continue(t)
    /\ UNCHANGED skip_option

ParseImplicitLabel(t) ==
    /\ t.kind = "ImplicitLabel"
    /\ IF IsSome(current_option)
       THEN /\ current_option' = SetSlot(current_option, "label", Some(t.characters))
            /\ UNCHANGED <<form, current_section, current_group, current_field>>
       ELSE IF IsSome(current_field)
       THEN /\ current_field' = SetSlot(current_field, "label", Some(t.characters))
            /\ UNCHANGED <<form, current_section, current_group, current_option>>
       ELSE IF IsSome(current_group)
       THEN /\ current_group' = SetSlot(current_group, "title", Some(t.characters))
            /\ UNCHANGED <<form, current_section, current_field, current_option>>
       ELSE IF IsSome(current_section)
       THEN /\ current_section' = SetSlot(current_section, "title", Some(t.characters))
            /\ UNCHANGED <<form, current_group, current_field, current_option>>
       ELSE UNCHANGED <<form, slots>>
    /\ Continue(t)
    /\ UNCHANGED skip_option

\* Mutant of ParseTitle: first match wins, a title already set is kept.
ParseTitleFirst(t) ==
    /\ t.kind = "Title"
    /\ IF ~LangMatches(language, t.lang)
       THEN UNCHANGED <<form, slots>>
       ELSE IF IsSome(current_group)
       THEN /\ current_group' =
                 IF IsSome(Unwrap(current_group).title) THEN current_group
                 ELSE SetSlot(current_group, "title", Some(t.characters))
            /\ UNCHANGED <<form, current_section, current_field, current_option>>
       ELSE IF IsSome(current_section)
       THEN /\ current_section' =
                 IF IsSome(Unwrap(current_section).title) THEN current_section
                 ELSE SetSlot(current_section, "title", Some(t.characters))
            /\ UNCHANGED <<form, current_group, current_field, current_option>>
       ELSE /\ form' = IF IsSome(form.title) THEN form
                       ELSE [form EXCEPT !.title = Some(t.characters)]
            /\ UNCHANGED slots
    /\ Continue(t)
    /\ UNCHANGED skip_option

ParseTitle(t) ==
    /\ t.kind = "Title"
    /\ IF ~LangMatches(language, t.lang)
       THEN UNCHANGED <<form, slots>>
       ELSE IF IsSome(current_group)
       THEN /\ current_group' = SetSlot(current_group, "title", Some(t.characters))
            /\ UNCHANGED <<form, current_section, current_field, current_option>>
       ELSE IF IsSome(current_section)
       THEN /\ current_section' = SetSlot(current_section, "title", Some(t.characters))
            /\ UNCHANGED <<form, current_group, current_field, current_option>>
       ELSE /\ form' = [form EXCEPT !.title = Some(t.characters)]
            /\ UNCHANGED slots
    /\ Continue(t)
    /\ UNCHANGED skip_option

ParseSection(t) ==
    /\ t.kind = "Section"
    /\ LET r == SectionTryFrom(t.attributes)
       IN  IF r.ok
           THEN /\ current_section' = Some(r.val)
                /\ Continue(t)
                /\ UNCHANGED <<form, current_group, current_field, current_option>>
           ELSE /\ Fail(t, r.err)
                /\ UNCHANGED <<form, slots>>
    /\ UNCHANGED skip_option

ParseGroup(t) ==
    /\ t.kind = "Group"
    /\ LET r == GroupTryFrom(t.attributes)
       IN  IF r.ok
           THEN /\ current_group' = Some(r.val)
                /\ Continue(t)
                /\ UNCHANGED <<form, current_section, current_field, current_option>>
           ELSE /\ Fail(t, r.err)
                /\ UNCHANGED <<form, slots>>
    /\ UNCHANGED skip_option

ParseField(t) ==
    /\ t.kind = "Field"
    /\ LET r == FieldTryFrom(t.attributes)
       IN  IF r.ok
           THEN /\ current_field' = Some(r.val)
                /\ Continue(t)
                /\ UNCHANGED <<form, current_section, current_group, current_option>>
           ELSE /\ Fail(t, r.err)
                /\ UNCHANGED <<form, slots>>
    /\ UNCHANGED skip_option

\* attributes.iter().find(|a| a.name.local_name == "lang").map(|a| a.value.clone())
FindLang(attributes) ==
    IF \E i \in 1..Len(attributes) : attributes[i].name = "lang"
    THEN LET i == CHOOSE j \in 1..Len(attributes) :
                    /\ attributes[j].name = "lang"
                    /\ \A k \in 1..(j - 1) : attributes[k].name # "lang"
         IN  Some(attributes[i].value)
    ELSE None

\* Mutant of ParseOption: the option is built whatever its lang is.
ParseOptionUnfiltered(t) ==
    /\ t.kind = "Option"
    /\ LET r == FieldOptionTryFrom(t.attributes)
       IN  IF r.ok
           THEN /\ current_option' = Some(r.val)
                /\ Continue(t)
                /\ UNCHANGED <<form, current_section, current_group,
                               current_field, skip_option>>
           ELSE /\ Fail(t, r.err)
                /\ UNCHANGED <<form, slots, skip_option>>

ParseOption(t) ==
    /\ t.kind = "Option"
    /\ IF LangMatches(language, FindLang(t.attributes))
       THEN LET r == FieldOptionTryFrom(t.attributes)
            IN  IF r.ok
                THEN /\ current_option' = Some(r.val)
                     /\ Continue(t)
                     /\ UNCHANGED <<form, current_section, current_group,
                                    current_field, skip_option>>
                ELSE /\ Fail(t, r.err)
                     /\ UNCHANGED <<form, slots, skip_option>>
       ELSE /\ skip_option' = TRUE
            /\ Continue(t)
            /\ UNCHANGED <<form, slots>>

\* Mutant of ParseSectionEnd: a SectionEnd with no open section is ignored.
ParseSectionEndLenient(t) ==
    /\ t.kind = "SectionEnd"
    /\ current_section' = None
    /\ form' = IF IsSome(current_section)
               THEN [form EXCEPT !.sections = Append(@, Unwrap(current_section))]
               ELSE form
    /\ Continue(t)
    /\ UNCHANGED <<current_group, current_field, current_option, skip_option>>

ParseSectionEnd(t) ==
    /\ t.kind = "SectionEnd"
    /\ current_section' = None
    /\ IF IsSome(current_section)
       THEN /\ form' = [form EXCEPT !.sections = Append(@, Unwrap(current_section))]
            /\ Continue(t)
       ELSE /\ Fail(t, MismatchedTags(Lit("section")))
            /\ UNCHANGED form
    /\ UNCHANGED <<current_group, current_field, current_option, skip_option>>

\* Mutant of ParseGroupEnd: a group closed with no open section is dropped
\* without an error.
ParseGroupEndNoParentCheck(t) ==
    /\ t.kind = "GroupEnd"
    /\ current_group' = None
    /\ IF ~IsSome(current_group)
       THEN /\ Fail(t, MismatchedTags(Lit("group")))
            /\ UNCHANGED current_section
       ELSE /\ current_section' =
                  IF IsSome(current_section)
                  THEN Some([Unwrap(current_section) EXCEPT !.elements =
                          Append(@, [tag |-> "Group", val |-> Unwrap(current_group)])])
                  ELSE current_section
            /\ Continue(t)
    /\ UNCHANGED <<form, current_field, current_option, skip_option>>

ParseGroupEnd(t) ==
    /\ t.kind = "GroupEnd"
    /\ current_group' = None
    /\ IF ~IsSome(current_group)
       THEN /\ Fail(t, MismatchedTags(Lit("group")))
            /\ UNCHANGED current_section
       ELSE IF IsSome(current_section)
       THEN /\ current_section' =
                  Some([Unwrap(current_section) EXCEPT !.elements =
                          Append(@, [tag |-> "Group", val |-> Unwrap(current_group)])])
            /\ Continue(t)
       ELSE /\ Fail(t, OrphanElement(Lit("group found without a parent section")))
            /\ UNCHANGED current_section
    /\ UNCHANGED <<form, current_field, current_option, skip_option>>

\* Mutant of ParseFieldEnd: the `else` before the section branch is lost, so
\* a field closed inside a group is pushed to the section too.
ParseFieldEndBoth(t) ==
    /\ t.kind = "FieldEnd"
    /\ current_field' = None
    /\ IF ~IsSome(current_field)
       THEN /\ Fail(t, MismatchedTags(Lit("field")))
            /\ UNCHANGED <<current_section, current_group>>
       ELSE IF IsSome(current_group) \/ IsSome(current_section)
       THEN /\ current_group' =
                  IF IsSome(current_group)
                  THEN Some([Unwrap(current_group) EXCEPT !.members =
                               Append(@, Unwrap(current_field))])
                  ELSE current_group
            /\ current_section' =
                  IF IsSome(current_section)
                  THEN Some([Unwrap(current_section) EXCEPT !.elements =
                          Append(@, [tag |-> "Field", val |-> Unwrap(current_field)])])
                  ELSE current_section
            /\ Continue(t)
       ELSE /\ Fail(t, OrphanElement(Lit("field found without a parent section or group")))
            /\ UNCHANGED <<current_section, current_group>>
    /\ UNCHANGED <<form, current_option, skip_option>>

ParseFieldEnd(t) ==
    /\ t.kind = "FieldEnd"
    /\ current_field' = None
    /\ IF ~IsSome(current_field)
       THEN /\ Fail(t, MismatchedTags(Lit("field")))
            /\ UNCHANGED <<current_section, current_group>>
       ELSE IF IsSome(current_group)
       THEN /\ current_group' =
                  Some([Unwrap(current_group) EXCEPT !.members =
                          Append(@, Unwrap(current_field))])
            /\ Continue(t)
            /\ UNCHANGED current_section
       ELSE IF IsSome(current_section)
       THEN /\ current_section' =
                  Some([Unwrap(current_section) EXCEPT !.elements =
                          Append(@, [tag |-> "Field", val |-> Unwrap(current_field)])])
            /\ Continue(t)
            /\ UNCHANGED current_group
       ELSE /\ Fail(t, OrphanElement(Lit("field found without a parent section or group")))
            /\ UNCHANGED <<current_section, current_group>>
    /\ UNCHANGED <<form, current_option, skip_option>>

\* Mutant of ParseOptionEnd: the pending-skip flag is not cleared.
ParseOptionEndKeepsFlag(t) ==
    /\ t.kind = "OptionEnd"
    /\ IF skip_option
       THEN /\ Continue(t)
            /\ UNCHANGED <<current_field, current_option, skip_option>>
       ELSE /\ current_option' = None
            /\ UNCHANGED skip_option
            /\ IF ~IsSome(current_option)
               THEN /\ Fail(t, MismatchedTags(Lit("option")))
                    /\ UNCHANGED current_field
               ELSE IF IsSome(current_field)
               THEN /\ current_field' =
                          Some([Unwrap(current_field) EXCEPT !.options =
                                  Append(@, Unwrap(current_option))])
                    /\ Continue(t)
               ELSE /\ Fail(t, OrphanElement(Lit("option found without field parent")))
                    /\ UNCHANGED current_field
    /\ UNCHANGED <<form, current_section, current_group>>

ParseOptionEnd(t) ==
    /\ t.kind = "OptionEnd"
    /\ IF skip_option
       THEN /\ skip_option' = FALSE
            /\ Continue(t)
            /\ UNCHANGED <<current_field, current_option>>
       ELSE /\ current_option' = None
            /\ UNCHANGED skip_option
            /\ IF ~IsSome(current_option)
               THEN /\ Fail(t, MismatchedTags(Lit("option")))
                    /\ UNCHANGED current_field
               ELSE IF IsSome(current_field)
               THEN /\ current_field' =
                          Some([Unwrap(current_field) EXCEPT !.options =
                                  Append(@, Unwrap(current_option))])
                    /\ Continue(t)
               ELSE /\ Fail(t, OrphanElement(Lit("option found without field parent")))
                    /\ UNCHANGED current_field
    /\ UNCHANGED <<form, current_section, current_group>>

ParseIndex(t) ==
    /\ t.kind = "Index"
    /\ form' = [form EXCEPT !.index = t.position]
    /\ Continue(t)
    /\ UNCHANGED <<slots, skip_option>>

ParseLink(t) ==
    /\ t.kind = "Link"
    /\ form' = [form EXCEPT !.link = Some(t.characters)]
    /\ Continue(t)
    /\ UNCHANGED <<slots, skip_option>>

\* Mutant of ParseScript: the script replaces the ones embedded before it.
ParseScriptLast(t) ==
    /\ t.kind = "Script"
    /\ form' = [form EXCEPT !.embedded_scripts = <<t.characters>>]
    /\ Continue(t)
    /\ UNCHANGED <<slots, skip_option>>

ParseScript(t) ==
    /\ t.kind = "Script"
    /\ form' = [form EXCEPT !.embedded_scripts = Append(@, t.characters)]
    /\ Continue(t)
    /\ UNCHANGED <<slots, skip_option>>

ParseStyle(t) ==
    /\ t.kind = "Style"
    /\ form' = [form EXCEPT !.stylesheet = Some(t.characters)]
    /\ Continue(t)
    /\ UNCHANGED <<slots, skip_option>>

\* The end of the for loop: Ok(self.form).
ParseReturn ==
    /\ outcome' = Some(Ok(form))
    /\ pc' = "done"
    /\ UNCHANGED <<language, form, slots, skip_option, token, pos>>

(***************************************************************************)
(* src/token.rs: the TokenBuffer.  An XmlEvent is a record: type is        *)
(* "Start" (name, attributes), "End" (name), "Characters" (characters) or  *)
(* "Other" (every variant dispatch_event ignores).                         *)
(***************************************************************************)
XmlEvent(type, name, attributes, characters) ==
    [type |-> type, name |-> name, attributes |-> attributes,
     characters |-> characters]

StartElement(name, attributes) == XmlEvent("Start", name, attributes, << >>)

EndElement(name) == XmlEvent("End", name, << >>, << >>)

Characters(c) == XmlEvent("Characters", "", << >>, c)

OtherEvent == XmlEvent("Other", "", << >>, << >>)

\* The characters of the element and attribute names that occur in events.
NameChars ==
    ("language" :> <<"l", "a", "n", "g", "u", "a", "g", "e">>)
    @@ ("alternates" :> <<"a", "l", "t", "e", "r", "n", "a", "t", "e", "s">>)
    @@ ("unlisted" :> <<"u", "n", "l", "i", "s", "t", "e", "d">>)
    @@ ("category" :> <<"c", "a", "t", "e", "g", "o", "r", "y">>)
    @@ ("description" :> <<"d", "e", "s", "c", "r", "i", "p", "t", "i", "o", "n">>)
    @@ ("dir-description" :> <<"d", "i", "r", "-", "d", "e", "s", "c", "r", "i", "p", "t", "i", "o", "n">>)
    @@ ("meta-description" :> <<"m", "e", "t", "a", "-", "d", "e", "s", "c", "r", "i", "p", "t", "i", "o", "n">>)
    @@ ("title" :> <<"t", "i", "t", "l", "e">>)
    @@ ("label" :> <<"l", "a", "b", "e", "l">>)
    @@ ("keywords" :> <<"k", "e", "y", "w", "o", "r", "d", "s">>)
    @@ ("instructions" :> <<"i", "n", "s", "t", "r", "u", "c", "t", "i", "o", "n", "s">>)
    @@ ("link" :> <<"l", "i", "n", "k">>)
    @@ ("script" :> <<"s", "c", "r", "i", "p", "t">>)
    @@ ("style" :> <<"s", "t", "y", "l", "e">>)
    @@ ("index" :> <<"i", "n", "d", "e", "x">>)
    @@ ("option" :> <<"o", "p", "t", "i", "o", "n">>)
    @@ ("field" :> <<"f", "i", "e", "l", "d">>)
    @@ ("group" :> <<"g", "r", "o", "u", "p">>)
    @@ ("section" :> <<"s", "e", "c", "t", "i", "o", "n">>)
    @@ ("b" :> <<"b">>)
    @@ ("p" :> <<"p">>)
    @@ ("lang" :> <<"l", "a", "n", "g">>)
    @@ ("name" :> <<"n", "a", "m", "e">>)
    @@ ("type" :> <<"t", "y", "p", "e">>)
    @@ ("class" :> <<"c", "l", "a", "s", "s">>)
    @@ ("foo" :> <<"f", "o", "o">>)

RECURSIVE StringifyAttributes(_, _)
\* The fold of stringify_xml_event: acc ++ ' ' ++ name ++ '="' ++ value ++ '"'
StringifyAttributes(attributes, acc) ==
    IF attributes = << >> THEN acc
    ELSE LET a == Head(attributes)
         IN  StringifyAttributes(Tail(attributes),
                acc \o <<" ">> \o NameChars[a.name] \o <<"=", "\"">>
                    \o a.value \o <<"\"">>)

\* Mutant of stringify_xml_event: an end tag is rendered like a start tag.
stringify_xml_eventNoSlash(e) ==
    CASE e.type = "Start" ->
           <<"<">> \o NameChars[e.name] \o StringifyAttributes(e.attributes, << >>)
                   \o <<">">>
      [] e.type = "End" -> <<"<">> \o NameChars[e.name] \o <<">">>
      [] e.type = "Characters" -> e.characters
      [] OTHER -> << >>

stringify_xml_event(e) ==
    CASE e.type = "Start" ->
           <<"<">> \o NameChars[e.name] \o StringifyAttributes(e.attributes, << >>)
                   \o <<">">>
      [] e.type = "End" -> <<"<", "/">> \o NameChars[e.name] \o <<">">>
      [] e.type = "Characters" -> e.characters
      [] OTHER -> << >>

\* attributes.into_iter().find(|a| &a.name.local_name == "lang").map(|a| a.value)
set_lang(self, attributes) == [self EXCEPT !.lang = FindLang(attributes)]

Push(self, t) == [self EXCEPT !.tokens = Append(@, t)]

LangElements ==
    {"category", "description", "dir-description", "meta-description", "title",
     "label", "keywords"}

on_start(self, name, attributes) ==
    CASE name \in LangElements -> set_lang(self, attributes)
      [] name \in {"link", "script", "style", "index"} -> self
      [] name = "unlisted" -> Push(self, UnitTok("Unlisted"))
      [] name = "option" -> Push(self, StartTok("Option", attributes))
      [] name = "field" -> Push(self, StartTok("Field", attributes))
      [] name = "group" -> Push(self, StartTok("Group", attributes))
      [] name = "section" -> Push(self, StartTok("Section", attributes))
      [] name = "instructions" ->
           [set_lang(self, attributes) EXCEPT !.instructions = Some(<< >>)]
      [] OTHER -> self

IsWhitespace(c) == c \in {" ", "\t", "\n", "\r"}

RECURSIVE SplitWhitespace(_, _)
\* str::split(char::is_whitespace): every whitespace character separates.
SplitWhitespace(s, cur) ==
    IF s = << >> THEN <<cur>>
    ELSE IF IsWhitespace(Head(s))
    THEN <<cur>> \o SplitWhitespace(Tail(s), << >>)
    ELSE SplitWhitespace(Tail(s), Append(cur, Head(s)))

\* Mutant of EndLang: the fallback to the default language is lost.
EndLangNoDefault(self) ==
    IF IsSome(self.lang) /\ Unwrap(self.lang) = STAR THEN None ELSE self.lang

\* Mutant of EndLang: "*" is not normalized.
EndLangNoStar(self) == IF IsSome(self.lang) THEN self.lang ELSE self.language

\* self.lang.take().or_else(|| self.language.clone())
\*     .map(|lang| if lang == "*" { None } else { Some(lang) }).flatten()
EndLang(self) ==
    LET l == IF IsSome(self.lang) THEN self.lang ELSE self.language
    IN  IF IsSome(l) /\ Unwrap(l) = STAR THEN None ELSE l

LangTokenKind(name) ==
    CASE name = "category" -> "Category"
      [] name = "description" -> "Description"
      [] name = "dir-description" -> "DirDescription"
      [] name = "meta-description" -> "MetaDescription"
      [] name = "title" -> "Title"
      [] name = "label" -> "Label"
      [] name = "keywords" -> "Keywords"
      [] name = "instructions" -> "Instructions"

\* Mutant of EndLanguage: a default language already set is kept.
EndLanguageFirst(self, characters) ==
    IF IsSome(self.language) THEN self
    ELSE [self EXCEPT !.language = Some(characters)]

\* "language" => { self.language = Some(characters); Token::None }
EndLanguage(self, characters) == [self EXCEPT !.language = Some(characters)]

\* position: characters.parse().unwrap_or_default()
IndexPosition(characters) ==
    LET n == ParseU16(characters) IN IF n.ok THEN n.val ELSE 0

\* "alternates" => { self.alternates =
\*     characters.split(char::is_whitespace).map(String::from).collect(); .. }
EndAlternates(self, characters) ==
    [self EXCEPT !.alternates = SplitWhitespace(characters, << >>)]

on_end(self, name) ==
    LET lang == EndLang(self)
        characters == IF IsSome(self.instructions) THEN Unwrap(self.instructions)
                      ELSE IF IsSome(self.characters) THEN Unwrap(self.characters)
                      ELSE << >>
        taken == [self EXCEPT !.lang = None, !.characters = None,
                              !.instructions = None]
        position == IndexPosition(characters)
    IN  CASE name = "language" -> EndLanguage(taken, characters)
          [] name \in LangElements \cup {"instructions"} ->
               Push(taken, LangTok(LangTokenKind(name), characters, lang))
          [] name = "link" -> Push(taken, TextTok("Link", characters))
          [] name = "script" -> Push(taken, TextTok("Script", characters))
          [] name = "style" -> Push(taken, TextTok("Style", characters))
          [] name = "index" -> Push(taken, IndexTok(position))
          [] name = "option" -> Push(taken, UnitTok("OptionEnd"))
          [] name = "field" -> Push(taken, UnitTok("FieldEnd"))
          [] name = "group" -> Push(taken, UnitTok("GroupEnd"))
          [] name = "section" -> Push(taken, UnitTok("SectionEnd"))
          [] name = "alternates" -> EndAlternates(taken, characters)
          [] OTHER -> taken

\* Mutant of Captured: every end event is handled as outside a block.
CapturedUntilEnd(self, e) ==
    /\ IsSome(self.instructions)
    /\ e.type # "End"

\* The first half of dispatch_event: an event seen while instructions is
\* Some and that is not the end of an instructions element is serialized.
Captured(self, e) ==
    /\ IsSome(self.instructions)
    /\ ~(e.type = "End" /\ e.name = "instructions")

dispatch_event(self, e) ==
    IF Captured(self, e)
    THEN [self EXCEPT !.instructions =
                        Some(Unwrap(@) \o stringify_xml_event(e))]
    ELSE CASE e.type = "Start" -> on_start(self, e.name, e.attributes)
           [] e.type = "End" -> on_end(self, e.name)
           [] e.type = "Characters" -> [self EXCEPT !.characters = Some(e.characters)]
           [] OTHER -> self

\* One iteration of `for token in self.tokens`: the match on the token.
ParseToken(t) ==
    \/ ParseNone(t)
    \/ ParseUnlisted(t)
    \/ ParseCategory(t)
    \/ ParseDescription(t)
    \/ ParseMetaDescription(t)
    \/ ParseDirDescription(t)
    \/ ParseKeywords(t)
    \/ ParseInstructions(t)
    \/ ParseLabel(t)
    \/ ParseImplicitLabel(t)
    \/ ParseTitle(t)
    \/ ParseSection(t)
    \/ ParseGroup(t)
    \/ ParseField(t)
    \/ ParseOption(t)
    \/ ParseSectionEnd(t)
    \/ ParseGroupEnd(t)
    \/ ParseFieldEnd(t)
    \/ ParseOptionEnd(t)
    \/ ParseIndex(t)
    \/ ParseLink(t)
    \/ ParseScript(t)
    \/ ParseStyle(t)

(***************************************************************************)
(* Spec: Parser::parse over every token sequence of at most MaxTokens      *)
(* tokens drawn from ParserInputs, for every target language of Targets.   *)
(* The next token of the sequence is chosen when the loop reaches it.      *)
(***************************************************************************)
MaxTokens == 3

Targets == {None, Some(EN), Some(FR)}

TokenLangs == {None, Some(EN), Some(FR)}

Texts == {TextA, TextB}

T_text == FieldTypeNames.Text

SectionAttrLists ==
    {<<Attr("name", N1)>>, <<Attr("name", N2)>>, << >>,
     <<Attr("name", N1), Attr("foo", TextA)>>}

GroupAttrLists ==
    {<< >>, <<Attr("name", N1)>>, <<Attr("type", TextA)>>}

FieldAttrLists ==
    {<<Attr("name", N1), Attr("type", T_text)>>,
     <<Attr("name", N2), Attr("type", T_text)>>,
     <<Attr("type", T_text)>>, <<Attr("name", N1)>>,
     <<Attr("name", N1), Attr("type", T_text), Attr("foo", TextA)>>}

OptionAttrLists ==
    {<<Attr("name", N1)>>, <<Attr("name", N2)>>, << >>,
     <<Attr("name", N1), Attr("lang", EN)>>,
     <<Attr("name", N2), Attr("lang", FR)>>,
     <<Attr("name", N1), Attr("foo", TextA)>>}

ParserInputs ==
    {LangTok(k, c, l) : k \in LangKinds, c \in Texts, l \in TokenLangs}
    \cup {TextTok(k, c) : k \in {"Link", "Script", "Style", "ImplicitLabel"}, c \in Texts}
    \cup {IndexTok(n) : n \in {1, U16Max}}
    \cup {UnitTok(k) : k \in EndKinds \cup {"Unlisted", "None"}}
    \cup {StartTok("Section", a) : a \in SectionAttrLists}
    \cup {StartTok("Group", a) : a \in GroupAttrLists}
    \cup {StartTok("Field", a) : a \in FieldAttrLists}
    \cup {StartTok("Option", a) : a \in OptionAttrLists}

Init ==
    /\ pc = "parse"
    /\ events = << >>
    /\ ev_pos = 0
    /\ path = << >>
    /\ tb = TokenBufferNew
    /\ builds = << >>
    /\ \E target \in Targets : ParserNew(target)

\* The loop takes the next token of the sequence.
Feed ==
    /\ pc = "parse"
    /\ pos < MaxTokens
    /\ UNCHANGED tokvars

LoopNone == Feed /\ \E t \in ParserInputs : ParseNone(t)

LoopUnlisted == Feed /\ \E t \in ParserInputs : ParseUnlisted(t)

LoopCategory == Feed /\ \E t \in ParserInputs : ParseCategory(t)

LoopDescription == Feed /\ \E t \in ParserInputs : ParseDescription(t)

LoopMetaDescription == Feed /\ \E t \in ParserInputs : ParseMetaDescription(t)

LoopDirDescription == Feed /\ \E t \in ParserInputs : ParseDirDescription(t)

LoopKeywords == Feed /\ \E t \in ParserInputs : ParseKeywords(t)

LoopInstructions == Feed /\ \E t \in ParserInputs : ParseInstructions(t)

LoopLabel == Feed /\ \E t \in ParserInputs : ParseLabel(t)

LoopImplicitLabel == Feed /\ \E t \in ParserInputs : ParseImplicitLabel(t)

LoopTitle == Feed /\ \E t \in ParserInputs : ParseTitle(t)

LoopSection == Feed /\ \E t \in ParserInputs : ParseSection(t)

LoopGroup == Feed /\ \E t \in ParserInputs : ParseGroup(t)

LoopField == Feed /\ \E t \in ParserInputs : ParseField(t)

LoopOption == Feed /\ \E t \in ParserInputs : ParseOption(t)

LoopSectionEnd == Feed /\ \E t \in ParserInputs : ParseSectionEnd(t)

LoopGroupEnd == Feed /\ \E t \in ParserInputs : ParseGroupEnd(t)

LoopFieldEnd == Feed /\ \E t \in ParserInputs : ParseFieldEnd(t)

LoopOptionEnd == Feed /\ \E t \in ParserInputs : ParseOptionEnd(t)

LoopIndex == Feed /\ \E t \in ParserInputs : ParseIndex(t)

LoopLink == Feed /\ \E t \in ParserInputs : ParseLink(t)

LoopScript == Feed /\ \E t \in ParserInputs : ParseScript(t)

LoopStyle == Feed /\ \E t \in ParserInputs : ParseStyle(t)

LoopEnd ==
    /\ pc = "parse"
    /\ ParseReturn
    /\ UNCHANGED tokvars

Next ==
    \/ LoopNone
    \/ LoopUnlisted
    \/ LoopCategory
    \/ LoopDescription
    \/ LoopMetaDescription
    \/ LoopDirDescription
    \/ LoopKeywords
    \/ LoopInstructions
    \/ LoopLabel
    \/ LoopImplicitLabel
    \/ LoopTitle
    \/ LoopSection
    \/ LoopGroup
    \/ LoopField
    \/ LoopOption
    \/ LoopSectionEnd
    \/ LoopGroupEnd
    \/ LoopFieldEnd
    \/ LoopOptionEnd
    \/ LoopIndex
    \/ LoopLink
    \/ LoopScript
    \/ LoopStyle
    \/ LoopEnd

Spec == Init /\ [][Next]_vars

(***************************************************************************)
(* SpecNest: Parser::parse over longer token sequences, at most MaxNest    *)
(* tokens, of the container tokens and the Label token.                    *)
(***************************************************************************)
MaxNest == 6

NestInputs ==
    {LangTok("Label", TextA, l) : l \in TokenLangs}
    \cup {UnitTok(k) : k \in EndKinds}
    \cup {StartTok("Section", a) : a \in SectionAttrLists}
    \cup {StartTok("Group", a) : a \in GroupAttrLists}
    \cup {StartTok("Field", a) : a \in FieldAttrLists}
    \cup {StartTok("Option", a) : a \in OptionAttrLists}

FeedNest ==
    /\ pc = "parse"
    /\ pos < MaxNest
    /\ UNCHANGED tokvars

NestLabel == FeedNest /\ \E t \in NestInputs : ParseLabel(t)

NestSection == FeedNest /\ \E t \in NestInputs : ParseSection(t)

NestGroup == FeedNest /\ \E t \in NestInputs : ParseGroup(t)

NestField == FeedNest /\ \E t \in NestInputs : ParseField(t)

NestOption == FeedNest /\ \E t \in NestInputs : ParseOption(t)

NestSectionEnd == FeedNest /\ \E t \in NestInputs : ParseSectionEnd(t)

NestGroupEnd == FeedNest /\ \E t \in NestInputs : ParseGroupEnd(t)

NestFieldEnd == FeedNest /\ \E t \in NestInputs : ParseFieldEnd(t)

NestOptionEnd == FeedNest /\ \E t \in NestInputs : ParseOptionEnd(t)

NextNest ==
    \/ NestLabel
    \/ NestSection
    \/ NestGroup
    \/ NestField
    \/ NestOption
    \/ NestSectionEnd
    \/ NestGroupEnd
    \/ NestFieldEnd
    \/ NestOptionEnd
    \/ LoopEnd

SpecNest == Init /\ [][NextNest]_vars

(***************************************************************************)
(* The event loop of TokenBuffer::from_readable_xml: one event is          *)
(* dispatched per step.  The reader only delivers well-nested events, so   *)
(* an end event always closes the innermost open element.                  *)
(***************************************************************************)
Dispatch(e) ==
    /\ tb' = dispatch_event(tb, e)
    /\ ev_pos' = ev_pos + 1
    /\ path' = CASE e.type = "Start" -> Append(path, e.name)
                 [] e.type = "End" -> SubSeq(path, 1, Len(path) - 1)
                 [] OTHER -> path
    /\ UNCHANGED builds

(***************************************************************************)
(* SpecTok: the tokenizer over every well-nested event stream of at most   *)
(* MaxEvents events and nesting depth MaxDepth; the next event is chosen   *)
(* when the loop reaches it and recorded in events.  The stream is the     *)
(* content of the document's root element.  EventReader::new reads with    *)
(* the default configuration, which coalesces adjacent character data: a   *)
(* Characters event never follows a Characters event directly.             *)
(***************************************************************************)
MaxEvents == 5

MaxDepth == 2

TokLangAttrs ==
    {<< >>, <<Attr("lang", EN)>>, <<Attr("lang", FR)>>, <<Attr("lang", STAR)>>}

TokStartInputs ==
    {StartElement(n, a) : n \in {"title", "label", "instructions"}, a \in TokLangAttrs}
    \cup {StartElement(n, << >>) : n \in {"language", "script", "b"}}
    \cup {StartElement("option", <<Attr("name", N1)>>)}

TokTexts == {EN, STAR, TextA}

InitTok ==
    /\ pc = "tokenize"
    /\ events = << >>
    /\ ev_pos = 0
    /\ path = << >>
    /\ tb = TokenBufferNew
    /\ builds = << >>
    /\ ParserNew(None)

Read(e) ==
    /\ pc = "tokenize"
    /\ ev_pos < MaxEvents
    /\ events' = Append(events, e)
    /\ Dispatch(e)
    /\ UNCHANGED <<pc, parservars>>

TokStart == \E e \in TokStartInputs : Len(path) < MaxDepth /\ Read(e)

TokEnd == path # << >> /\ Read(EndElement(path[Len(path)]))

Coalesced ==
    IF events = << >> THEN TRUE ELSE events[Len(events)].type # "Characters"

TokCharacters == Coalesced /\ \E c \in TokTexts : Read(Characters(c))

TokOther == Read(OtherEvent)

NextTok == TokStart \/ TokEnd \/ TokCharacters \/ TokOther

SpecTok == InitTok /\ [][NextTok]_vars

(***************************************************************************)
(* SpecDoc: whole documents.  The tokenizer runs once over the events of   *)
(* a document; then Parser::new(&tokens, target).parse() runs over the     *)
(* tokens it produced, any number of times, for any target of DocTargets.  *)
(***************************************************************************)
S1 == <<"s", "1">>

F1 == <<"f", "1">>

O1 == <<"o", "1">>

O2 == <<"o", "2">>

Name == <<"N", "a", "m", "e">>

T_select == FieldTypeNames.Select

\* A lang attribute: None for an element written without one.
LangAttr(l) == IF l = None THEN << >> ELSE <<Attr("lang", Unwrap(l))>>

\* <name lang=l>text</name>
Leaf(name, l, text) ==
    <<StartElement(name, LangAttr(l)), Characters(text), EndElement(name)>>

\* <language>dl</language>, absent when dl is None
LanguageDecl(dl) ==
    IF dl = None THEN << >>
    ELSE <<StartElement("language", << >>), Characters(Unwrap(dl)),
           EndElement("language")>>

\* <alternates>fr</alternates>, absent when alt is None
AlternatesDecl(alt) ==
    IF alt = None THEN << >>
    ELSE <<StartElement("alternates", << >>), Characters(Unwrap(alt)),
           EndElement("alternates")>>

DocLangs == {None, Some(EN), Some(FR), Some(STAR)}

\* language, alternates, then
\* <section name="s1"><title lang=t1>a</title><title lang=t2>b</title>
\*   <field name="f1" type="text"><label lang=ll>Name</label></field></section>
TextDoc(dl, alt, t1, t2, ll) ==
    LanguageDecl(dl) \o AlternatesDecl(alt)
    \o <<StartElement("section", <<Attr("name", S1)>>)>>
    \o Leaf("title", t1, TextA) \o Leaf("title", t2, TextB)
    \o <<StartElement("field", <<Attr("name", F1), Attr("type", T_text)>>)>>
    \o Leaf("label", ll, Name)
    \o <<EndElement("field"), EndElement("section")>>

\* <option name=n lang=l><label>text</label></option>
OptionElement(n, l, text) ==
    <<StartElement("option", <<Attr("name", n)>> \o LangAttr(l))>>
    \o Leaf("label", l, text)
    \o <<EndElement("option")>>

\* language, then <section name="s1"><field name="f1" type="select">
\*   <option name="o1" lang=l1>..</option><option name="o2" lang=l2>..</option>
\* </field></section>
OptionDoc(dl, l1, l2) ==
    LanguageDecl(dl)
    \o <<StartElement("section", <<Attr("name", S1)>>),
         StartElement("field", <<Attr("name", F1), Attr("type", T_select)>>)>>
    \o OptionElement(O1, l1, TextA) \o OptionElement(O2, l2, TextB)
    \o <<EndElement("field"), EndElement("section")>>

Documents ==
    {TextDoc(dl, alt, t1, t2, ll) :
        dl \in DocLangs, alt \in {None, Some(FR)}, t1 \in DocLangs,
        t2 \in DocLangs, ll \in DocLangs}
    \cup {OptionDoc(dl, l1, l2) : dl \in DocLangs, l1 \in DocLangs, l2 \in DocLangs}

DocTargets == {Some(EN), Some(FR)}

InitDoc ==
    /\ pc = "tokenize"
    /\ events \in Documents
    /\ ev_pos = 0
    /\ path = << >>
    /\ tb = TokenBufferNew
    /\ builds = << >>
    /\ ParserNew(None)

\* for event in event_reader { token_stream.dispatch_event(event?) }
DocEvent ==
    /\ pc = "tokenize"
    /\ ev_pos < Len(events)
    /\ Dispatch(events[ev_pos + 1])
    /\ UNCHANGED <<pc, events, parservars>>

\* return Ok(token_stream)
DocTokenized ==
    /\ pc = "tokenize"
    /\ ev_pos = Len(events)
    /\ pc' = "tokenized"
    /\ UNCHANGED <<tokvars, parservars>>

\* Parser::new(&ts.tokens, target)
DocNewParser ==
    /\ pc \in {"tokenized", "done"}
    /\ \E target \in DocTargets : NewParser(target)
    /\ pc' = "parse"
    /\ UNCHANGED tokvars

DocParseStep ==
    /\ pc = "parse"
    /\ pos < Len(tb.tokens)
    /\ ParseToken(tb.tokens[pos + 1])
    /\ UNCHANGED tokvars

\* Mutant of DocParseEnd: parse takes the tokens out of the TokenBuffer.
DocParseEndDrains ==
    /\ pc = "parse"
    /\ pos = Len(tb.tokens)
    /\ ParseReturn
    /\ tb' = [tb EXCEPT !.tokens = << >>]
    /\ UNCHANGED <<events, ev_pos, path, builds>>

DocParseEnd ==
    /\ pc = "parse"
    /\ pos = Len(tb.tokens)
    /\ ParseReturn
    /\ UNCHANGED tokvars

NextDoc ==
    DocEvent \/ DocTokenized \/ DocNewParser \/ DocParseStep \/ DocParseEnd

SpecDoc == InitDoc /\ [][NextDoc]_vars

(***************************************************************************)
(* SpecIgnore: the tokenizer over documents into which one empty element   *)
(* of a name outside the vocabulary is written, at any place.              *)
(***************************************************************************)
RECURSIVE from_events(_, _)
\* The loop of from_readable_xml run to its end over the events evs.
from_events(evs, self) ==
    IF evs = << >> THEN self
    ELSE from_events(Tail(evs), dispatch_event(self, Head(evs)))

UnknownNames == {"b", "p"}

\* language, alternates, then <section name="s1"><title lang=tl>a</title></section>
IgnoreBase(dl, tl) ==
    LanguageDecl(dl) \o AlternatesDecl(Some(FR))
    \o <<StartElement("section", <<Attr("name", S1)>>)>>
    \o Leaf("title", tl, TextA)
    \o <<EndElement("section")>>

\* The document d with <n></n> written after its first i events.
Inserted(d, i, n) ==
    SubSeq(d, 1, i) \o <<StartElement(n, << >>), EndElement(n)>>
    \o SubSeq(d, i + 1, Len(d))

IgnoreDocs ==
    UNION {{Inserted(IgnoreBase(dl, tl), i, n) :
              i \in 0..Len(IgnoreBase(dl, tl)), n \in UnknownNames} :
           dl \in {None, Some(EN)}, tl \in {None, Some(FR)}}

InitIgnore ==
    /\ pc = "tokenize"
    /\ events \in IgnoreDocs
    /\ ev_pos = 0
    /\ path = << >>
    /\ tb = TokenBufferNew
    /\ builds = << >>
    /\ ParserNew(None)

NextIgnore == DocEvent \/ DocTokenized

SpecIgnore == InitIgnore /\ [][NextIgnore]_vars

(***************************************************************************)
(* SpecImplicit: documents with plain text written directly under one      *)
(* container, tokenized and built as in SpecDoc.                           *)
(***************************************************************************)
ContainerNames == {"section", "group", "field", "option"}

\* The text, as the first child of the container named c, and nothing else.
TextUnder(c, under, text) == IF c = under THEN <<Characters(text)>> ELSE << >>

\* language, then <section name="s1"><group><field name="f1" type="select">
\*   <option name="o1"></option></field></group></section>
\* with text written directly under the container named under.
ImplicitDoc(dl, under, text) ==
    LanguageDecl(dl)
    \o <<StartElement("section", <<Attr("name", S1)>>)>>
    \o TextUnder("section", under, text)
    \o <<StartElement("group", << >>)>>
    \o TextUnder("group", under, text)
    \o <<StartElement("field", <<Attr("name", F1), Attr("type", T_select)>>)>>
    \o TextUnder("field", under, text)
    \o <<StartElement("option", <<Attr("name", O1)>>)>>
    \o TextUnder("option", under, text)
    \o <<EndElement("option"), EndElement("field"), EndElement("group"),
         EndElement("section")>>

ImplicitDocs ==
    {ImplicitDoc(dl, under, text) :
        dl \in {None, Some(EN)}, under \in ContainerNames, text \in {TextA, Name}}

InitImplicit ==
    /\ pc = "tokenize"
    /\ events \in ImplicitDocs
    /\ ev_pos = 0
    /\ path = << >>
    /\ tb = TokenBufferNew
    /\ builds = << >>
    /\ ParserNew(None)

SpecImplicit == InitImplicit /\ [][NextDoc]_vars

(***************************************************************************)
(* SpecCapture: the tokenizer over the well-nested event streams of at     *)
(* most MaxCapEvents events and nesting depth MaxCapDepth made of          *)
(* container elements with raw attribute lists, of the head elements and   *)
(* of instructions elements, which may nest; the next event is chosen when *)
(* the loop reaches it and recorded in events.                             *)
(***************************************************************************)
MaxCapEvents == 5

MaxCapDepth == 3

CapStartInputs ==
    {StartElement("instructions", a) : a \in {<< >>, <<Attr("lang", FR)>>}}
    \cup {StartElement("section", <<Attr("name", N1)>>),
          StartElement("group", <<Attr("foo", TextA)>>),
          StartElement("field", <<Attr("type", TextA), Attr("name", N1)>>),
          StartElement("option", << >>)}
    \cup {StartElement(n, << >>) : n \in {"unlisted", "language", "alternates"}}

CapTexts == {TextA, TextB}

CapRead(e) ==
    /\ pc = "tokenize"
    /\ ev_pos < MaxCapEvents
    /\ events' = Append(events, e)
    /\ Dispatch(e)
    /\ UNCHANGED <<pc, parservars>>

CapStart == Len(path) < MaxCapDepth /\ \E e \in CapStartInputs : CapRead(e)

CapEnd == path # << >> /\ CapRead(EndElement(path[Len(path)]))

CapCharacters == Coalesced /\ \E c \in CapTexts : CapRead(Characters(c))

CapOther == CapRead(OtherEvent)

NextCapture == CapStart \/ CapEnd \/ CapCharacters \/ CapOther

SpecCapture == InitTok /\ [][NextCapture]_vars

(***************************************************************************)
(* SpecCompile: the head of a document and the production of its variants. *)
(* The reader delivers at most MaxHeadEvents events of leaf elements       *)
(* language, alternates, index, title and section, each with at most one   *)
(* text; then the driver builds one Form for the declared default language *)
(* and one per entry of alternates, in order, over the same tokens, and    *)
(* stops at the first build that fails.                                    *)
(***************************************************************************)
MaxHeadEvents == 6

HeadNames == {"language", "alternates", "index", "title", "section"}

EN_FR == EN \o <<" ">> \o FR

FR_FR == FR \o <<" ">> \o FR

FR__EN == FR \o <<" ", " ">> \o EN

Seven == <<"7">>

HeadTexts == {EN, FR, EN_FR, FR_FR, FR__EN, Seven, TextA}

InitCompile ==
    /\ pc = "tokenize"
    /\ events = << >>
    /\ ev_pos = 0
    /\ path = << >>
    /\ tb = TokenBufferNew
    /\ builds = << >>
    /\ ParserNew(None)

HeadRead(e) ==
    /\ pc = "tokenize"
    /\ ev_pos < MaxHeadEvents
    /\ events' = Append(events, e)
    /\ Dispatch(e)
    /\ UNCHANGED <<pc, parservars>>

HeadStart == path = << >> /\ \E n \in HeadNames : HeadRead(StartElement(n, << >>))

HeadCharacters ==
    path # << >> /\ Coalesced /\ \E c \in HeadTexts : HeadRead(Characters(c))

HeadEnd == path # << >> /\ HeadRead(EndElement(path[Len(path)]))

\* return Ok(token_stream)
HeadTokenized ==
    /\ pc = "tokenize"
    /\ path = << >>
    /\ pc' = "tokenized"
    /\ UNCHANGED <<tokvars, parservars>>

\* The targets of the variants: the declared default language, then the
\* entries of alternates in declaration order.
CompileTargets(self) ==
    <<self.language>> \o [i \in 1..Len(self.alternates) |-> Some(self.alternates[i])]

\* Parser::new(&tokens, target) for the next target
CompileNext ==
    /\ pc = "tokenized"
    /\ Len(builds) < Len(CompileTargets(tb))
    /\ NewParser(CompileTargets(tb)[Len(builds) + 1])
    /\ pc' = "parse"
    /\ UNCHANGED tokvars

\* The value parse returned is recorded; an Err ends the production.
Collect(next) ==
    /\ pc = "done"
    /\ builds' = Append(builds, [target |-> language, outcome |-> Unwrap(outcome)])
    /\ pc' = next
    /\ UNCHANGED <<events, ev_pos, path, tb, parservars>>

CompileCollect ==
    Collect(IF ~Unwrap(outcome).ok THEN "failed"
            ELSE IF Len(builds) + 1 = Len(CompileTargets(tb)) THEN "compiled"
            ELSE "tokenized")

NextCompile ==
    \/ HeadStart
    \/ HeadCharacters
    \/ HeadEnd
    \/ HeadTokenized
    \/ CompileNext
    \/ DocParseStep
    \/ DocParseEnd
    \/ CompileCollect

SpecCompile == InitCompile /\ [][NextCompile]_vars

(***************************************************************************)
(* SpecRebuild: a caller that tokenizes one document and then calls        *)
(* Parser::new(&tokens, target).parse() at most MaxBuilds times over the   *)
(* same tokens, for any targets of DocTargets, keeping what each call      *)
(* returned.  The documents are those of SpecDoc and documents whose       *)
(* build fails for some targets.                                           *)
(***************************************************************************)
MaxBuilds == 3

\* language, then <section name="s1"><field name="f1" type="select">
\*   <option lang=l1><label>a</label></option></field></section>:
\* the option has no name.
UnnamedOptionDoc(dl, l1) ==
    LanguageDecl(dl)
    \o <<StartElement("section", <<Attr("name", S1)>>),
         StartElement("field", <<Attr("name", F1), Attr("type", T_select)>>),
         StartElement("option", LangAttr(l1))>>
    \o Leaf("label", l1, TextA)
    \o <<EndElement("option"), EndElement("field"), EndElement("section")>>

RebuildDocs ==
    Documents \cup {UnnamedOptionDoc(dl, l1) : dl \in DocLangs, l1 \in DocLangs}

InitRebuild ==
    /\ pc = "tokenize"
    /\ events \in RebuildDocs
    /\ ev_pos = 0
    /\ path = << >>
    /\ tb = TokenBufferNew
    /\ builds = << >>
    /\ ParserNew(None)

\* Parser::new(&ts.tokens, target)
RebuildNew ==
    /\ pc = "tokenized"
    /\ Len(builds) < MaxBuilds
    /\ \E target \in DocTargets : NewParser(target)
    /\ pc' = "parse"
    /\ UNCHANGED tokvars

\* let form = Parser::new(..).parse()
RebuildCollect == Collect("tokenized")

NextRebuild ==
    \/ DocEvent
    \/ DocTokenized
    \/ RebuildNew
    \/ DocParseStep
    \/ DocParseEnd
    \/ RebuildCollect

SpecRebuild == InitRebuild /\ [][NextRebuild]_vars

(***************************************************************************)
(* SpecSeq: Parser::parse over a token sequence fixed beforehand: any      *)
(* sequence of at most MaxSeq tokens of SeqInputs (texts that reach the    *)
(* Form or the open section, and the section tokens), for the targets of   *)
(* DocTargets.                                                             *)
(***************************************************************************)
MaxSeq == 4

TextC == <<"c">>

TextD == <<"d">>

SeqInputs ==
    {LangTok(k, c, l) : k \in {"Title", "MetaDescription"}, c \in Texts,
                        l \in {None, Some(FR)}}
    \cup {LangTok("Description", TextC, None), TextTok("ImplicitLabel", TextD)}
    \cup {StartTok("Section", <<Attr("name", S1)>>), StartTok("Section", << >>),
          UnitTok("SectionEnd")}

InitSeq ==
    /\ pc = "parse"
    /\ events = << >>
    /\ ev_pos = 0
    /\ path = << >>
    /\ \E n \in 0..MaxSeq : \E tokens \in [1..n -> SeqInputs] :
          tb = [TokenBufferNew EXCEPT !.tokens = tokens]
    /\ builds = << >>
    /\ \E target \in DocTargets : ParserNew(target)

NextSeq == DocParseStep \/ DocParseEnd

SpecSeq == InitSeq /\ [][NextSeq]_vars

(***************************************************************************)
(* SpecScript: Parser::parse over a token sequence fixed beforehand: any   *)
(* sequence of at most MaxScriptSeq tokens of ScriptInputs (scripts, a     *)
(* stylesheet and the tokens of a section and a field), for the targets of *)
(* Targets.                                                                *)
(***************************************************************************)
MaxScriptSeq == 4

ScriptInputs ==
    {TextTok("Script", c) : c \in Texts}
    \cup {TextTok("Style", <<"c">>)}
    \cup {StartTok("Section", <<Attr("name", N1)>>), UnitTok("SectionEnd"),
          StartTok("Field", <<Attr("name", N1), Attr("type", T_text)>>),
          UnitTok("FieldEnd")}

InitScript ==
    /\ pc = "parse"
    /\ events = << >>
    /\ ev_pos = 0
    /\ path = << >>
    /\ \E n \in 0..MaxScriptSeq : \E tokens \in [1..n -> ScriptInputs] :
          tb = [TokenBufferNew EXCEPT !.tokens = tokens]
    /\ builds = << >>
    /\ \E target \in Targets : ParserNew(target)

SpecScript == InitScript /\ [][NextSeq]_vars

\* The loop of parse is a plain for loop: it always takes its next step.
FairScript == SpecScript /\ WF_vars(NextSeq)

(***************************************************************************)
(* SpecDesc: Parser::parse over a token sequence fixed beforehand: any     *)
(* sequence of at most MaxDescSeq Description, MetaDescription and         *)
(* DirDescription tokens, for the targets of DocTargets.                   *)
(***************************************************************************)
MaxDescSeq == 3

DescKinds == {"Description", "MetaDescription", "DirDescription"}

DescInputs ==
    {LangTok(k, c, l) : k \in DescKinds, c \in Texts, l \in {None, Some(FR)}}

InitDesc ==
    /\ pc = "parse"
    /\ events = << >>
    /\ ev_pos = 0
    /\ path = << >>
    /\ \E n \in 0..MaxDescSeq : \E tokens \in [1..n -> DescInputs] :
          tb = [TokenBufferNew EXCEPT !.tokens = tokens]
    /\ builds = << >>
    /\ \E target \in DocTargets : ParserNew(target)

SpecDesc == InitDesc /\ [][NextSeq]_vars

(***************************************************************************)
(* SpecWell: the tokenizer over the well-nested event streams of at most   *)
(* MaxWellEvents events and nesting depth MaxWellDepth made of the         *)
(* container elements of WellStarts, then Parser::parse over the tokens    *)
(* for a target of DocTargets.                                             *)
(***************************************************************************)
MaxWellEvents == 8

MaxWellDepth == 4

WellStarts ==
    {StartElement("section", <<Attr("name", S1)>>),
     StartElement("group", << >>),
     StartElement("field", <<Attr("name", F1), Attr("type", T_text)>>),
     StartElement("option", <<Attr("name", O1)>>),
     StartElement("option", <<Attr("name", O2), Attr("lang", FR)>>)}

\* The events the reader can deliver next: the start of an element of
\* WellStarts, or the end of the innermost open element.
WellEvents ==
    (IF Len(path) < MaxWellDepth THEN WellStarts ELSE {})
    \cup (IF path # << >> THEN {EndElement(path[Len(path)])} ELSE {})

WellEvent ==
    /\ pc = "tokenize"
    /\ ev_pos < MaxWellEvents
    /\ \E e \in WellEvents : events' = Append(events, e) /\ Dispatch(e)
    /\ UNCHANGED <<pc, parservars>>

\* return Ok(token_stream), then Parser::new(&ts.tokens, target)
WellTokenized ==
    /\ pc = "tokenize"
    /\ path = << >>
    /\ \E target \in DocTargets : NewParser(target)
    /\ pc' = "parse"
    /\ UNCHANGED tokvars

SpecWell ==
    InitTok /\ [][WellEvent \/ WellTokenized \/ DocParseStep \/ DocParseEnd]_vars

(***************************************************************************)
(* SpecBuild: the construction of one container.  Parser::parse runs over  *)
(* a sequence of one start token whose attribute list is any list of at    *)
(* most MaxAttrs attributes of BuildAttrs, for every target of Targets.    *)
(***************************************************************************)
MaxAttrs == 3

BuildAttrs ==
    {Attr("name", N1), Attr("type", T_text), Attr("type", TextA),
     Attr("foo", TextA), Attr("lang", EN), Attr("lang", FR),
     Attr("length", <<"7">>), Attr("length", TextA),
     Attr("rows", <<"1", " ", "2">>), Attr("rows", TextA),
     Attr("placeholder", TextA), Attr("class", TextA), Attr("optional", << >>)}

BuildAttrLists == UNION {[1..n -> BuildAttrs] : n \in 0..MaxAttrs}

InitBuild ==
    /\ pc = "parse"
    /\ events = << >>
    /\ ev_pos = 0
    /\ path = << >>
    /\ \E k \in StartKinds, a \in BuildAttrLists :
          tb = [TokenBufferNew EXCEPT !.tokens = <<StartTok(k, a)>>]
    /\ builds = << >>
    /\ \E target \in Targets : ParserNew(target)

FeedBuild ==
    /\ pc = "parse"
    /\ pos < Len(tb.tokens)
    /\ UNCHANGED tokvars

BuildSection == FeedBuild /\ ParseSection(tb.tokens[pos + 1])

BuildGroup == FeedBuild /\ ParseGroup(tb.tokens[pos + 1])

BuildField == FeedBuild /\ ParseField(tb.tokens[pos + 1])

BuildOption == FeedBuild /\ ParseOption(tb.tokens[pos + 1])

BuildEnd ==
    /\ pc = "parse"
    /\ pos = Len(tb.tokens)
    /\ ParseReturn
    /\ UNCHANGED tokvars

NextBuild == BuildSection \/ BuildGroup \/ BuildField \/ BuildOption \/ BuildEnd

SpecBuild == InitBuild /\ [][NextBuild]_vars

(***************************************************************************)
(* SpecKind: the construction of one group or one field from attribute     *)
(* lists as the markup reader delivers them (no attribute name twice), of  *)
(* at most MaxKindAttrs attributes of KindAttrs.                           *)
(***************************************************************************)
MaxKindAttrs == 3

T_row == <<"r", "o", "w">>

T_subsection == <<"s", "u", "b", "s", "e", "c", "t", "i", "o", "n">>

KindAttrs ==
    {Attr("name", N1),
     Attr("type", << >>), Attr("type", T_row), Attr("type", T_subsection),
     Attr("type", T_text), Attr("type", FieldTypeNames.Grid), Attr("type", TextA),
     Attr("rows", <<"1", " ", "2">>), Attr("rows", <<"2", " ", "1">>),
     Attr("rows", <<"0">>), Attr("rows", <<"1", " ", " ", "2">>),
     Attr("rows", TextA), Attr("rows", <<"1", " ", "a">>),
     Attr("rows", <<"7", "0", "0", "0", "0">>),
     Attr("length", <<"7">>), Attr("length", <<"6", "5", "5", "3", "5">>),
     Attr("length", <<"6", "5", "5", "3", "6">>), Attr("length", <<"-", "1">>),
     Attr("length", TextA),
     Attr("foo", TextA), Attr("class", TextA)}

KindAttrLists ==
    {a \in UNION {[1..n -> KindAttrs] : n \in 0..MaxKindAttrs} :
        \A i, j \in 1..Len(a) : a[i].name = a[j].name => i = j}

InitKind ==
    /\ pc = "parse"
    /\ events = << >>
    /\ ev_pos = 0
    /\ path = << >>
    /\ \E k \in {"Group", "Field"}, a \in KindAttrLists :
          tb = [TokenBufferNew EXCEPT !.tokens = <<StartTok(k, a)>>]
    /\ builds = << >>
    /\ \E target \in Targets : ParserNew(target)

NextKind == BuildGroup \/ BuildField \/ BuildEnd

SpecKind == InitKind /\ [][NextKind]_vars

(***************************************************************************)
(* Properties.                                                             *)
(***************************************************************************)
\* The step of parse that processed a token of kind k: token' is that token.
Processed(k) == pc = "parse" /\ pos' = pos + 1 /\ token'.kind = k

ProcessedOneOf(ks) == pc = "parse" /\ pos' = pos + 1 /\ token'.kind \in ks

Failed(o, k) == o # None /\ ~Unwrap(o).ok /\ Unwrap(o).err.kind = k

Running(o) == o = None

TitleOf(slot) == Unwrap(slot).title

\* The payload of the token just processed sits in the place its kind is
\* routed to.  A Label has no place when neither an option nor a field is
\* open (parser.rs:87-89).
PayloadApplied ==
    LET t == token'
        c == Some(t.characters)
    IN  CASE t.kind = "Category" -> form'.category = c
          [] t.kind = "Description" -> form'.description = c
          [] t.kind = "MetaDescription" -> form'.meta_description = c
          [] t.kind = "DirDescription" -> form'.dir_description = c
          [] t.kind = "Keywords" -> form'.keywords = c
          [] t.kind = "Title" ->
               IF IsSome(current_group) THEN Unwrap(current_group').title = c
               ELSE IF IsSome(current_section) THEN Unwrap(current_section').title = c
               ELSE form'.title = c
          [] t.kind = "Label" ->
               IF IsSome(current_option) THEN Unwrap(current_option').label = c
               ELSE IF IsSome(current_field) THEN Unwrap(current_field').label = c
               ELSE <<form, slots>>' = <<form, slots>>
          [] t.kind = "Instructions" ->
               IF IsSome(current_field) THEN Unwrap(current_field').instructions = c
               ELSE IF IsSome(current_group) THEN Unwrap(current_group').instructions = c
               ELSE IF IsSome(current_section)
               THEN Unwrap(current_section').instructions = c
               ELSE form'.instructions = c

\* C1: in Parser::parse a language-bearing token (Category, Description,
\* MetaDescription, DirDescription, Keywords, Instructions, Label, Title) has
\* its payload applied if and only if its lang is None or equals the target
\* language; a token whose lang is Some(x) with x different from the target
\* leaves the Form and every open container unchanged, and raises no error.
C1_LanguageFilter ==
    [][ProcessedOneOf(LangKinds) =>
          /\ Running(outcome')
          /\ IF token'.lang = None \/ token'.lang = language
             THEN PayloadApplied
             ELSE <<form, slots>>' = <<form, slots>>]_vars

\* A Title restricted to the target language was applied to the open section.
C1_Witness ==
    /\ token.kind = "Title"
    /\ token.lang = Some(EN)
    /\ language = Some(EN)
    /\ IsSome(current_section)
    /\ current_group = None
    /\ TitleOf(current_section) = Some(token.characters)

\* The Form of a finished, successful build of a document of SpecDoc.
Built == pc = "done" /\ outcome # None /\ Unwrap(outcome).ok

BuiltForm == Unwrap(outcome).val

\* In a TextDoc the section is sections[1] and its field is elements[1].
DocSectionTitle == BuiltForm.sections[1].title

DocFieldLabel == BuiltForm.sections[1].elements[1].val.label

\* C2 as stated: a text element written with no lang attribute applies under
\* every target language.  For the document declaring default language en
\* and alternates fr, the label written without lang is "Name" in the build
\* for en and in the build for fr; for two titles on the section, the first
\* without lang and the second with lang="en", the build for en has the
\* second's text and the build for fr has the first's text.
C2_NoLangAppliesEverywhere ==
    \A dl \in DocLangs, alt \in {None, Some(FR)}, t1 \in DocLangs,
       t2 \in DocLangs, ll \in DocLangs :
       (Built /\ events = TextDoc(dl, alt, t1, t2, ll)) =>
          /\ (dl = Some(EN) /\ alt = Some(FR) /\ ll = None) =>
                DocFieldLabel = Some(Name)
          /\ (t1 = None /\ t2 = Some(EN)) =>
                DocSectionTitle = IF language = Some(EN) THEN Some(TextB)
                                  ELSE Some(TextA)

\* The language a text element written with lang attribute l ends up with in
\* a document whose declared default language is dl.
Effective(l, dl) ==
    LET v == IF l # None THEN l ELSE dl
    IN  IF v = Some(STAR) THEN None ELSE v

\* C2 amended: a text element written with no lang attribute carries the
\* declared default language of the document, and applies under every
\* target only when no default is declared or the default is "*".  For the
\* document declaring en with alternates fr the label written without lang
\* is "Name" in the build for en and absent in the build for fr; for the two
\* titles, the build for en has the second's text, and the build for fr has
\* the first's text exactly when the first title's effective language is
\* none or fr, and no title otherwise.
C2_NoLangTakesDefault ==
    \A dl \in DocLangs, alt \in {None, Some(FR)}, t1 \in DocLangs,
       t2 \in DocLangs, ll \in DocLangs :
       (Built /\ events = TextDoc(dl, alt, t1, t2, ll)) =>
          /\ (dl = Some(EN) /\ alt = Some(FR) /\ ll = None) =>
                DocFieldLabel = IF language = Some(EN) THEN Some(Name) ELSE None
          /\ (t1 = None /\ t2 = Some(EN)) =>
                DocSectionTitle =
                   IF language = Some(EN) THEN Some(TextB)
                   ELSE IF Effective(None, dl) \in {None, language}
                   THEN Some(TextA)
                   ELSE None

\* The build for fr of the document declaring en and alternates fr: the label
\* and the first title, both written without lang, are absent.
C2_Witness ==
    /\ Built
    /\ events = TextDoc(Some(EN), Some(FR), None, Some(EN), None)
    /\ language = Some(FR)
    /\ DocFieldLabel = None
    /\ DocSectionTitle = None

\* The start event that opened the element closed by event n, when every
\* event in between is text: the element is a leaf.
LeafStart(n) ==
    {j \in 1..(n - 1) :
        /\ events[j].type = "Start"
        /\ events[j].name = events[n].name
        /\ \A k \in (j + 1)..(n - 1) : events[k].type \in {"Characters", "Other"}}

LastToken == tb.tokens[Len(tb.tokens)]

\* C3: when the tokenizer processes the end event of a language-bearing leaf
\* element, the lang of the token it emits is the element's own lang
\* attribute if it had one, otherwise the declared default language if one
\* is known, otherwise None; and "*" is replaced by None.
C3_EndLang ==
    (/\ pc = "tokenize"
     /\ ev_pos > 0
     /\ events[ev_pos].type = "End"
     /\ events[ev_pos].name \in LangElements \cup {"instructions"}
     /\ LeafStart(ev_pos) # {}
     /\ \A i \in 1..Len(path) : path[i] # "instructions") =>
        /\ tb.tokens # << >>
        /\ LastToken.kind = LangTokenKind(events[ev_pos].name)
        /\ \A j \in LeafStart(ev_pos) :
              LET own == IF \E a \in 1..Len(events[j].attributes) :
                               events[j].attributes[a].name = "lang"
                         THEN Some(events[j].attributes[
                                 CHOOSE a \in 1..Len(events[j].attributes) :
                                    events[j].attributes[a].name = "lang"].value)
                         ELSE None
                  v == IF own # None THEN own ELSE tb.language
              IN  LastToken.lang = IF v = Some(STAR) THEN None ELSE v

\* A title without lang closed after the default language en was declared.
C3_Witness ==
    /\ pc = "tokenize"
    /\ ev_pos > 1
    /\ events[ev_pos] = EndElement("title")
    /\ events[ev_pos - 1] = StartElement("title", << >>)
    /\ tb.language = Some(EN)
    /\ tb.tokens # << >>
    /\ LastToken = LangTok("Title", << >>, Some(EN))

\* C4: a Field start token processed while a field is already open makes
\* the build fail with ImproperNesting.
C4_ImproperNesting ==
    [][(Processed("Field") /\ IsSome(current_field)) =>
          Failed(outcome', "ImproperNesting")]_vars

HasAttr(attributes, n) == \E i \in 1..Len(attributes) : attributes[i].name = n

SharedAttrNames == {"requires", "optional", "optional-if", "class"}

\* The attribute names the container kind k knows (spec section 6; lang is
\* an attribute of an option).
RecognizedNames(k) ==
    CASE k = "Section" -> {"name"} \cup SharedAttrNames
      [] k = "Group" -> {"name", "type"} \cup SharedAttrNames
      [] k = "Field" ->
           {"name", "type", "placeholder", "rows", "length"} \cup SharedAttrNames
      [] k = "Option" -> {"name", "lang"} \cup SharedAttrNames

\* An attribute the container kind k takes: its name is recognized and its
\* value, where the kind constrains it, is valid.
Accepted(k, a) ==
    /\ a.name \in RecognizedNames(k)
    /\ (k = "Field" /\ a.name = "type") => FieldTypeTryFrom(a.value).ok
    /\ (k = "Group" /\ a.name = "type") => GroupTypeTryFrom(a.value).ok
    /\ (k = "Field" /\ a.name = "rows") => ParseRows(a.value).ok
    /\ (k = "Field" /\ a.name = "length") => ParseU16(a.value).ok

\* An option start token whose own lang attribute excludes the target.
Excluded(t) ==
    /\ t.kind = "Option"
    /\ FindLang(t.attributes) # None
    /\ FindLang(t.attributes) # language

\* The single start token of a SpecBuild run has been processed.
BuiltToken == pos = 1 /\ token = tb.tokens[1]

\* C5 as stated: building a Section, Field or Option start token whose
\* attribute list has no name attribute always fails with UnnamedElement,
\* whatever other attributes are present and whatever the target language.
C5_UnnamedAlways ==
    (/\ BuiltToken
     /\ token.kind \in {"Section", "Field", "Option"}
     /\ ~HasAttr(token.attributes, "name")) =>
        Failed(outcome, "UnnamedElement")

\* C5 amended: building a Section, Field or Option start token with no name
\* attribute fails with UnnamedElement when every attribute present is
\* accepted and, for an Option, its lang does not exclude the target
\* language; when some attribute is rejected the build fails with another
\* error (that of the first rejected attribute), and an Option whose lang
\* excludes the target is skipped without error.
C5_UnnamedAfterAttributes ==
    (/\ BuiltToken
     /\ token.kind \in {"Section", "Field", "Option"}
     /\ ~HasAttr(token.attributes, "name")) =>
        IF Excluded(token)
        THEN Running(outcome) \/ (outcome # None /\ Unwrap(outcome).ok)
        ELSE IF \A i \in 1..Len(token.attributes) :
                   Accepted(token.kind, token.attributes[i])
        THEN Failed(outcome, "UnnamedElement")
        ELSE /\ outcome # None
             /\ ~Unwrap(outcome).ok
             /\ Unwrap(outcome).err.kind \in
                  {"InvalidAttribute", "InvalidFieldType"}

\* A field with a valid type and no name was refused as unnamed.
C5_Witness ==
    /\ BuiltToken
    /\ token = StartTok("Field", <<Attr("type", T_text), Attr("class", TextA)>>)
    /\ Failed(outcome, "UnnamedElement")

\* C6 as stated: building a container start token that carries an attribute
\* whose name is not recognized fails with InvalidAttribute naming that
\* attribute, whatever the other attributes and the target language are.
C6_UnrecognizedAlways ==
    (BuiltToken /\ token.kind \in StartKinds) =>
       \A i \in 1..Len(token.attributes) :
          token.attributes[i].name \notin RecognizedNames(token.kind) =>
             /\ Failed(outcome, "InvalidAttribute")
             /\ Unwrap(outcome).err.attribute_name = token.attributes[i].name

\* C6 amended: building a container start token fails with InvalidAttribute
\* naming an attribute whose name is not recognized when that attribute is
\* the first of the list that is rejected (every attribute before it is
\* accepted), for every target language, except that an option whose lang
\* excludes the target language is skipped without its attributes being
\* looked at.
C6_FirstUnrecognized ==
    (BuiltToken /\ token.kind \in StartKinds) =>
       \A i \in 1..Len(token.attributes) :
          (/\ token.attributes[i].name \notin RecognizedNames(token.kind)
           /\ \A j \in 1..(i - 1) : Accepted(token.kind, token.attributes[j])
           /\ ~Excluded(token)) =>
             /\ Failed(outcome, "InvalidAttribute")
             /\ Unwrap(outcome).err.attribute_name = token.attributes[i].name

\* A field with a name and a valid type was refused for the attribute foo.
C6_Witness ==
    /\ BuiltToken
    /\ token = StartTok("Field", <<Attr("name", N1), Attr("type", T_text),
                                   Attr("foo", TextA)>>)
    /\ Failed(outcome, "InvalidAttribute")
    /\ Unwrap(outcome).err.attribute_name = "foo"

\* C7: a SectionEnd processed while no section is open, or a FieldEnd
\* processed while no field is open, makes the build fail with
\* MismatchedTags.
C7_MismatchedTags ==
    [][/\ (Processed("SectionEnd") /\ current_section = None) =>
             Failed(outcome', "MismatchedTags")
       /\ (Processed("FieldEnd") /\ current_field = None) =>
             Failed(outcome', "MismatchedTags")]_vars

\* A SectionEnd met no open section although a group was open.
C7_Witness ==
    /\ token.kind = "SectionEnd"
    /\ IsSome(current_group)
    /\ outcome = Some(Err(MismatchedTags(Lit("section"))))

\* C8 as stated: a GroupEnd processed while no section is open fails with
\* OrphanElement; a FieldEnd processed while neither a group nor a section
\* is open fails with OrphanElement; an OptionEnd processed while no field
\* is open fails with OrphanElement.
C8_OrphanAlways ==
    [][/\ (Processed("GroupEnd") /\ current_section = None) =>
             Failed(outcome', "OrphanElement")
       /\ (Processed("FieldEnd") /\ current_group = None
              /\ current_section = None) =>
             Failed(outcome', "OrphanElement")
       /\ (Processed("OptionEnd") /\ current_field = None) =>
             Failed(outcome', "OrphanElement")]_vars

\* C8 amended: a GroupEnd processed while a group is open and no section is
\* open fails with OrphanElement; a FieldEnd processed while a field is open
\* and neither a group nor a section is open fails with OrphanElement; an
\* OptionEnd processed while an option is open, no skip is pending and no
\* field is open fails with OrphanElement.  When the container itself is
\* not open the error is MismatchedTags instead.
C8_OrphanWhenOpen ==
    [][/\ (Processed("GroupEnd") /\ current_section = None) =>
             IF IsSome(current_group) THEN Failed(outcome', "OrphanElement")
             ELSE Failed(outcome', "MismatchedTags")
       /\ (Processed("FieldEnd") /\ current_group = None
              /\ current_section = None) =>
             IF IsSome(current_field) THEN Failed(outcome', "OrphanElement")
             ELSE Failed(outcome', "MismatchedTags")
       /\ (Processed("OptionEnd") /\ current_field = None /\ ~skip_option) =>
             IF IsSome(current_option) THEN Failed(outcome', "OrphanElement")
             ELSE Failed(outcome', "MismatchedTags")]_vars

\* An option was closed with no field open.
C8_Witness ==
    /\ token.kind = "OptionEnd"
    /\ outcome = Some(Err(OrphanElement(Lit("option found without field parent"))))

GroupElement(g) == [tag |-> "Group", val |-> g]

FieldElement(f) == [tag |-> "Field", val |-> f]

\* C9: attach-on-close.  When an end token is processed with its container
\* open (and, for an OptionEnd, no skip pending) and its parent open, the
\* container leaves its open slot and is appended once, at the tail of one
\* list: a section to Form.sections; a group to the open section's elements;
\* a field to the open group's members if a group is open and otherwise to
\* the open section's elements; an option to the open field's options.
\* Nothing else changes, so each list holds its children in the order of
\* their end tokens.
C9_AttachOnClose ==
    [][/\ (Processed("SectionEnd") /\ IsSome(current_section)) =>
             /\ Running(outcome')
             /\ current_section' = None
             /\ form' = [form EXCEPT !.sections =
                                        Append(@, Unwrap(current_section))]
             /\ UNCHANGED <<current_group, current_field, current_option>>
       /\ (Processed("GroupEnd") /\ IsSome(current_group)
              /\ IsSome(current_section)) =>
             /\ Running(outcome')
             /\ current_group' = None
             /\ current_section' =
                   Some([Unwrap(current_section) EXCEPT !.elements =
                           Append(@, GroupElement(Unwrap(current_group)))])
             /\ UNCHANGED <<form, current_field, current_option>>
       /\ (Processed("FieldEnd") /\ IsSome(current_field)
              /\ IsSome(current_group)) =>
             /\ Running(outcome')
             /\ current_field' = None
             /\ current_group' =
                   Some([Unwrap(current_group) EXCEPT !.members =
                           Append(@, Unwrap(current_field))])
             /\ UNCHANGED <<form, current_section, current_option>>
       /\ (Processed("FieldEnd") /\ IsSome(current_field)
              /\ current_group = None /\ IsSome(current_section)) =>
             /\ Running(outcome')
             /\ current_field' = None
             /\ current_section' =
                   Some([Unwrap(current_section) EXCEPT !.elements =
                           Append(@, FieldElement(Unwrap(current_field)))])
             /\ UNCHANGED <<form, current_group, current_option>>
       /\ (Processed("OptionEnd") /\ IsSome(current_option) /\ ~skip_option
              /\ IsSome(current_field)) =>
             /\ Running(outcome')
             /\ current_option' = None
             /\ current_field' =
                   Some([Unwrap(current_field) EXCEPT !.options =
                           Append(@, Unwrap(current_option))])
             /\ UNCHANGED <<form, current_section, current_group>>]_vars

\* A second field was closed into an open group inside an open section: the
\* group holds both fields in closing order and the section holds none.
C9_Witness ==
    /\ token.kind = "FieldEnd"
    /\ Running(outcome)
    /\ current_field = None
    /\ IsSome(current_section)
    /\ Unwrap(current_section).elements = << >>
    /\ IsSome(current_group)
    /\ Len(Unwrap(current_group).members) = 2
    /\ Unwrap(current_group).members[1].name = N1
    /\ Unwrap(current_group).members[2].name = N2

RECURSIVE Names(_)
Names(list) ==
    IF list = << >> THEN << >> ELSE <<Head(list).name>> \o Names(Tail(list))

\* The options of an OptionDoc whose lang, l1 and l2, admit the target.
Admitted(l1, l2) ==
    (IF l1 = None \/ l1 = language THEN <<O1>> ELSE << >>)
    \o (IF l2 = None \/ l2 = language THEN <<O2>> ELSE << >>)

OptionLangs == {None, Some(EN), Some(FR)}

\* C10: an option whose own lang attribute excludes the target language
\* contributes no entry to its field's options; its OptionEnd is consumed
\* without MismatchedTags or any other error and clears the pending-skip
\* flag, so the sibling options that match are all attached: the build of a
\* field with two options succeeds and the field's options are exactly the
\* options whose lang is absent or equals the target, in document order.
C10_SkippedOption ==
    /\ [](\A dl \in DocLangs, l1 \in OptionLangs, l2 \in OptionLangs :
            (pc = "done" /\ events = OptionDoc(dl, l1, l2)) =>
               /\ outcome # None
               /\ Unwrap(outcome).ok
               /\ Names(BuiltForm.sections[1].elements[1].val.options)
                     = Admitted(l1, l2))
    /\ [][/\ (Processed("Option") /\ Excluded(token')) =>
                /\ Running(outcome')
                /\ skip_option'
                /\ <<form, slots>>' = <<form, slots>>
          /\ (Processed("OptionEnd") /\ skip_option) =>
                /\ Running(outcome')
                /\ ~skip_option'
                /\ <<form, slots>>' = <<form, slots>>]_vars

\* The build for en of a field whose first option is lang="fr" and whose
\* second is lang="en": only the second is attached.
C10_Witness ==
    /\ Built
    /\ events = OptionDoc(Some(EN), Some(FR), Some(EN))
    /\ language = Some(EN)
    /\ Names(BuiltForm.sections[1].elements[1].val.options) = <<O2>>

RECURSIVE CaptureOpen(_, _, _)
\* The position in evs of the instructions start event whose verbatim block
\* is still open after the events i.. of evs, 0 when none is: a block opens
\* at an instructions start seen outside a block and closes at the next
\* instructions end.
CaptureOpen(evs, i, open) ==
    IF i > Len(evs) THEN open
    ELSE LET e == evs[i]
         IN  CaptureOpen(evs, i + 1,
                IF open = 0
                THEN IF e.type = "Start" /\ e.name = "instructions" THEN i ELSE 0
                ELSE IF e.type = "End" /\ e.name = "instructions" THEN 0 ELSE open)

RECURSIVE AttributesWritten(_)
\* The attributes of a start tag as written: each one is a space, the name,
\* an equals sign and the value between double quotes.
AttributesWritten(attributes) ==
    IF attributes = << >> THEN << >>
    ELSE <<" ">> \o NameChars[Head(attributes).name] \o <<"=", "\"">>
         \o Head(attributes).value \o <<"\"">>
         \o AttributesWritten(Tail(attributes))

\* The literal form of one event: <name attr="value">, </name>, the text.
Written(e) ==
    IF e.type = "Start"
    THEN <<"<">> \o NameChars[e.name] \o AttributesWritten(e.attributes) \o <<">">>
    ELSE IF e.type = "End" THEN <<"<", "/">> \o NameChars[e.name] \o <<">">>
    ELSE IF e.type = "Characters" THEN e.characters
    ELSE << >>

RECURSIVE WrittenFrom(_, _)
\* The literal forms of the events i.. of evs, in order, concatenated.
WrittenFrom(evs, i) ==
    IF i > Len(evs) THEN << >> ELSE Written(evs[i]) \o WrittenFrom(evs, i + 1)

\* C11: while a verbatim block is open no event appends a token; the
\* instructions end event that closes the block appends exactly one token,
\* an Instructions token whose text is the concatenation, in order, of the
\* literal forms of every event between the start that opened the block and
\* that end (a start tag as <name attr="value">, an end tag as </name>, text
\* unchanged).
C11_Verbatim ==
    [][LET open == CaptureOpen(events, 1, 0)
           e == events'[Len(events')]
       IN  (pc = "tokenize" /\ open # 0) =>
              IF e.type = "End" /\ e.name = "instructions"
              THEN /\ Len(tb'.tokens) = Len(tb.tokens) + 1
                   /\ SubSeq(tb'.tokens, 1, Len(tb.tokens)) = tb.tokens
                   /\ tb'.tokens[Len(tb'.tokens)].kind = "Instructions"
                   /\ tb'.tokens[Len(tb'.tokens)].characters =
                         WrittenFrom(events, open + 1)
              ELSE tb'.tokens = tb.tokens]_vars

\* <instructions><b>a</b></instructions> has been read: one token, whose
\* text is <b>a</b>.
C11_Witness ==
    /\ pc = "tokenize"
    /\ events = <<StartElement("instructions", << >>), StartElement("b", << >>),
                  Characters(TextA), EndElement("b"), EndElement("instructions")>>
    /\ Len(tb.tokens) = 1
    /\ tb.tokens[1].kind = "Instructions"
    /\ tb.tokens[1].characters = <<"<", "b", ">", "a", "<", "/", "b", ">">>

RECURSIVE TextBetween(_, _, _)
\* The Characters events j..n of evs, in order, concatenated.
TextBetween(evs, j, n) ==
    IF j > n THEN << >>
    ELSE (IF evs[j].type = "Characters" THEN evs[j].characters ELSE << >>)
         \o TextBetween(evs, j + 1, n)

TextElements == LangElements \cup {"link", "script", "style"}

\* C12: when the end event of a leaf text element is processed outside a
\* verbatim block and several Characters events occurred between its start
\* and its end, the text of the token emitted is the concatenation of all of
\* them in order.
C12_Concatenates ==
    (/\ pc = "tokenize"
     /\ ev_pos > 0
     /\ events[ev_pos].type = "End"
     /\ events[ev_pos].name \in TextElements
     /\ LeafStart(ev_pos) # {}
     /\ \A i \in 1..Len(path) : path[i] # "instructions") =>
        \A j \in LeafStart(ev_pos) :
           Cardinality({k \in j..ev_pos : events[k].type = "Characters"}) > 1 =>
              /\ tb.tokens # << >>
              /\ LastToken.characters = TextBetween(events, j, ev_pos)

\* The end events of the elements called name that have been read.
Closed(name) ==
    {i \in 1..Len(events) : events[i].type = "End" /\ events[i].name = name}

Max(S) == CHOOSE x \in S : \A y \in S : y <= x

\* The text of the leaf element that event i closes.
ElementText(i) == TextBetween(events, Max(LeafStart(i)), i)

\* The text of the last element called name that has been closed.
LastText(name) == ElementText(Max(Closed(name)))

\* C13: every build of a document whose index element has a text that is
\* not a number succeeds and yields a Form whose index is the max-sentinel
\* of Form::new.
C13_IndexSentinel ==
    (Closed("index") # {} /\ ~ParseU16(LastText("index")).ok) =>
        \A b \in 1..Len(builds) :
           /\ builds[b].outcome.ok
           /\ builds[b].outcome.val.index = U16Max

RECURSIVE Runs(_, _)
\* The maximal runs of non-whitespace characters of s, in order.
Runs(s, cur) ==
    LET run == IF cur = << >> THEN << >> ELSE <<cur>>
    IN  IF s = << >> THEN run
        ELSE IF IsWhitespace(Head(s)) THEN run \o Runs(Tail(s), << >>)
        ELSE Runs(Tail(s), Append(cur, Head(s)))

\* C19: after tokenizing, alternates is the list of the maximal runs of
\* non-whitespace characters of the text of the alternates element, in
\* order, duplicates kept and nothing added (empty when there is no such
\* element).
C19_Alternates ==
    pc # "tokenize" =>
        tb.alternates = IF Closed("alternates") = {} THEN << >>
                        ELSE Runs(LastText("alternates"), << >>)

\* C20: the default language is the text of the last language element that
\* has been closed, None when there is none.
C20_LastLanguage ==
    tb.language = IF Closed("language") = {} THEN None
                  ELSE Some(LastText("language"))

\* <language>fr</language><language>en</language> has been tokenized.
C20_Witness ==
    /\ pc = "tokenized"
    /\ events = LanguageDecl(Some(FR)) \o LanguageDecl(Some(EN))
    /\ tb.language = Some(EN)

\* C15: any two calls of parse over the same tokens with the same target
\* language returned the same value, either the same Form or the same error.
C15_Deterministic ==
    \A i \in 1..Len(builds) : \A j \in 1..Len(builds) :
        builds[i].target = builds[j].target =>
            builds[i].outcome = builds[j].outcome

\* Two builds for en returned the same Form with its section, and two
\* builds of a document with an unnamed option failed alike.
C15_Witness ==
    /\ Len(builds) >= 2
    /\ builds[1].target = builds[2].target
    /\ \/ builds[1].outcome.ok /\ builds[2].outcome.val.sections # << >>
       \/ ~builds[1].outcome.ok /\ ~builds[2].outcome.ok

\* C16: no step of a build, successful or failed, changes the TokenBuffer
\* (tokens, default language, alternates); and a build for a language that
\* runs right after a build for another language returns what the first
\* build of all, which nothing preceded, returned for that language.
C16_Independent ==
    /\ [][pc # "tokenize" => tb' = tb]_vars
    /\ [](\A k \in 2..Len(builds) :
             (/\ builds[k].target = builds[1].target
              /\ builds[k - 1].target # builds[k].target) =>
                 builds[k].outcome = builds[1].outcome)

\* Builds for en, fr, en of a document whose builds for en and fr differ.
C16_Witness ==
    /\ Len(builds) = 3
    /\ builds[1].target = Some(EN)
    /\ builds[2].target = Some(FR)
    /\ builds[3].target = Some(EN)
    /\ builds[1].outcome # builds[2].outcome
    /\ tb.tokens # << >>

Min(S) == CHOOSE x \in S : \A y \in S : x <= y

\* Whether a section is open when token i of tokens is reached: the last
\* section token before it is a start.
SectionOpenAt(tokens, i) ==
    LET S == {j \in 1..(i - 1) : tokens[j].kind \in {"Section", "SectionEnd"}}
    IN  S # {} /\ tokens[Max(S)].kind = "Section"

\* The tokens of SeqInputs whose processing raises an error, and the error:
\* a section start without a name, a section end with no section open.
Offends(tokens, i) ==
    \/ tokens[i].kind = "Section" /\ ~HasAttr(tokens[i].attributes, "name")
    \/ tokens[i].kind = "SectionEnd" /\ ~SectionOpenAt(tokens, i)

ErrorOf(t) ==
    IF t.kind = "Section" THEN UnnamedElement(Lit("section must have a name"))
    ELSE MismatchedTags(Lit("section"))

\* C17: when parse has returned and some token of the sequence raises an
\* error, the value returned is the error of the first such token and
\* nothing else (no Form), that token is the last one processed, and the
\* tokens after it were never processed; while parse runs, no token
\* processed so far raised an error.
C17_FirstError ==
    LET bad == {i \in 1..Len(tb.tokens) : Offends(tb.tokens, i)}
    IN  /\ (pc = "done" /\ bad # {}) =>
              /\ outcome = Some(Err(ErrorOf(tb.tokens[Min(bad)])))
              /\ pos = Min(bad)
              /\ token = tb.tokens[Min(bad)]
        /\ (pc = "done" /\ bad = {}) => Unwrap(outcome).ok /\ pos = Len(tb.tokens)
        /\ pc = "parse" => outcome = None /\ \A i \in bad : i > pos

\* A section end with nothing open, then a title and a section without
\* name: the build ended at the first token with MismatchedTags.
C17_Witness ==
    /\ pc = "done"
    /\ Len(tb.tokens) = 3
    /\ tb.tokens[1].kind = "SectionEnd"
    /\ tb.tokens[2].kind = "Title"
    /\ tb.tokens[3] = StartTok("Section", << >>)
    /\ pos = 1
    /\ outcome = Some(Err(MismatchedTags(Lit("section"))))
    /\ form.title = None

\* parse has returned Ok(Form).
Returned == pc = "done" /\ Unwrap(outcome).ok

ReturnedForm == Unwrap(outcome).val

\* Token t passes the language filter of the build.
Passes(t) == t.lang = None \/ t.lang = language

Several(S) == Cardinality(S) >= 2

LastOf(S) == tb.tokens[Max(S)].characters

\* The tokens of the kinds given that were applied to the Form's title:
\* those that pass the filter and were reached with no section open.
OnFormTitle(kinds) ==
    {i \in 1..Len(tb.tokens) :
        /\ tb.tokens[i].kind \in kinds
        /\ Passes(tb.tokens[i])
        /\ ~SectionOpenAt(tb.tokens, i)}

\* The tokens of the kinds given that pass the filter: the document-level
\* kinds are applied to the Form wherever they stand.
OnForm(kinds) ==
    {i \in 1..Len(tb.tokens) : tb.tokens[i].kind \in kinds /\ Passes(tb.tokens[i])}

\* The tokens of the kinds given that were applied to the title of the last
\* section of the returned Form: those between the last section end and the
\* section start before it.
OnLastSection(kinds) ==
    LET ends == {i \in 1..Len(tb.tokens) : tb.tokens[i].kind = "SectionEnd"}
        e == Max(ends)
        start == Max({j \in 1..(e - 1) : tb.tokens[j].kind = "Section"})
    IN  IF ends = {} THEN {}
        ELSE {i \in (start + 1)..(e - 1) :
                 tb.tokens[i].kind \in kinds /\ Passes(tb.tokens[i])}

LastSection == ReturnedForm.sections[Len(ReturnedForm.sections)]

\* C18 as stated: when several tokens of one kind pass the filter and are
\* applied to the same target, the value in the returned Form is the text
\* of the last of them.
C18_LastOfKind ==
    Returned =>
        /\ Several(OnFormTitle({"Title"})) =>
              ReturnedForm.title = Some(LastOf(OnFormTitle({"Title"})))
        /\ Several(OnForm({"Description"})) =>
              ReturnedForm.description = Some(LastOf(OnForm({"Description"})))
        /\ Several(OnForm({"MetaDescription"})) =>
              ReturnedForm.meta_description =
                 Some(LastOf(OnForm({"MetaDescription"})))
        /\ Several(OnLastSection({"Title"})) =>
              LastSection.title = Some(LastOf(OnLastSection({"Title"})))

\* C18 amended: the value is the text of the last token applied to that
\* field of the target, which is the last token of the kind unless a token
\* of another kind that writes the same field follows it: a Description
\* also sets meta_description, an ImplicitLabel the title of the open
\* section.
C18_LastApplied ==
    Returned =>
        /\ Several(OnFormTitle({"Title"})) =>
              ReturnedForm.title = Some(LastOf(OnFormTitle({"Title"})))
        /\ Several(OnForm({"Description"})) =>
              ReturnedForm.description = Some(LastOf(OnForm({"Description"})))
        /\ Several(OnForm({"MetaDescription"})) =>
              ReturnedForm.meta_description =
                 Some(LastOf(OnForm({"MetaDescription", "Description"})))
        /\ Several(OnLastSection({"Title"})) =>
              LastSection.title =
                 Some(LastOf(OnLastSection({"Title", "ImplicitLabel"})))

\* A section with two titles that both pass, a then b: its title is b.
C18_Witness ==
    /\ Returned
    /\ tb.tokens = <<StartTok("Section", <<Attr("name", S1)>>),
                     LangTok("Title", TextA, None), LangTok("Title", TextB, None),
                     UnitTok("SectionEnd")>>
    /\ LastSection.title = Some(TextB)

\* The value of the attribute named n of a list that has one.
AttrValue(attributes, n) ==
    attributes[CHOOSE i \in 1..Len(attributes) : attributes[i].name = n].value

\* The attributes of the list written before the first one named n (all of
\* them when none is named n) have names among ns.
NamesBefore(attributes, n, ns) ==
    \A i \in 1..Len(attributes) :
       (\A j \in 1..i : attributes[j].name # n) => attributes[i].name \in ns

\* The attributes of the list other than the one named n have names among ns.
NamesBeside(attributes, n, ns) ==
    \A i \in 1..Len(attributes) :
       attributes[i].name # n => attributes[i].name \in ns

\* The group that the start token just processed has opened.
OpenedGroup == Unwrap(current_group)

\* C22: the construction of a group never fails with UnnamedElement, and
\* when no other attribute stands in the way its result is decided by the
\* type attribute: with no type attribute, or with the value "" or "row",
\* a Group of kind Row is built, with the value "subsection" a Group of kind
\* Subsection, and the built Group has the empty name when no name is
\* written; any other type value fails with InvalidGroupType.
C22_GroupKind ==
    (BuiltToken /\ token.kind = "Group") =>
       LET a == token.attributes
           others == {"name"} \cup SharedAttrNames
           kind == IF ~HasAttr(a, "type") THEN "Row"
                   ELSE IF AttrValue(a, "type") \in {<< >>, T_row} THEN "Row"
                   ELSE IF AttrValue(a, "type") = T_subsection THEN "Subsection"
                   ELSE "none"
       IN  /\ ~Failed(outcome, "UnnamedElement")
           /\ (kind = "none" /\ NamesBefore(a, "type", others)) =>
                 /\ Failed(outcome, "InvalidGroupType")
                 /\ Unwrap(outcome).err.invalid_type = AttrValue(a, "type")
           /\ (kind # "none" /\ NamesBeside(a, "type", others)) =>
                 /\ ~(outcome # None /\ ~Unwrap(outcome).ok)
                 /\ current_group # None
                 /\ OpenedGroup.group_type = kind
                 /\ ~HasAttr(a, "name") => OpenedGroup.name = << >>
                 /\ HasAttr(a, "name") => OpenedGroup.name = AttrValue(a, "name")

\* A group written with type "subsection" and no name was built as an
\* unnamed Subsection.
C22_Witness ==
    /\ BuiltToken
    /\ token = StartTok("Group", <<Attr("class", TextA), Attr("type", T_subsection)>>)
    /\ current_group # None
    /\ OpenedGroup.group_type = "Subsection"
    /\ OpenedGroup.name = << >>

\* The 13 names of the field kinds.
KindNames == {FieldTypeNames[k] : k \in DOMAIN FieldTypeNames}

\* The field that the start token just processed has opened.
OpenedField == Unwrap(current_field)

\* C23: a field start token opens a Field only if it has a type attribute
\* whose value is one of the 13 kind names, and the Field has that kind; a
\* type value that is none of them fails with InvalidFieldType carrying the
\* value, and so does a named field with no type attribute (where no
\* attribute written earlier, respectively no attribute at all, is
\* rejected first).
C23_FieldKind ==
    (BuiltToken /\ token.kind = "Field") =>
       LET a == token.attributes
       IN  /\ current_field # None =>
                 /\ HasAttr(a, "type")
                 /\ AttrValue(a, "type") \in KindNames
                 /\ FieldTypeNames[OpenedField.field_type] = AttrValue(a, "type")
           /\ (/\ HasAttr(a, "type")
               /\ AttrValue(a, "type") \notin KindNames
               /\ \A i \in 1..Len(a) :
                     (\A j \in 1..i : a[j].name # "type") => Accepted("Field", a[i])) =>
                 /\ Failed(outcome, "InvalidFieldType")
                 /\ Unwrap(outcome).err.invalid_type = AttrValue(a, "type")
           /\ (/\ HasAttr(a, "name")
               /\ ~HasAttr(a, "type")
               /\ \A i \in 1..Len(a) : Accepted("Field", a[i])) =>
                 Failed(outcome, "InvalidFieldType")

\* A named field with valid rows and no type was refused with
\* InvalidFieldType, and there are 13 kind names.
C23_Witness ==
    /\ BuiltToken
    /\ token = StartTok("Field", <<Attr("name", N1), Attr("rows", <<"1", " ", "2">>)>>)
    /\ Failed(outcome, "InvalidFieldType")
    /\ Cardinality(KindNames) = 13

\* A written item that is a positive integer of the 16-bit range.
PositiveInt(s) ==
    /\ s # << >>
    /\ \A i \in 1..Len(s) : s[i] \in Digits
    /\ DigitsValue(s, 0) \in 1..U16Max

\* C24: for a field with a name and a recognized type whose other
\* attributes are known ones, a rows attribute all of whose
\* whitespace-separated items are positive integers in range builds the
\* field with the list of their values, in the order written and as many
\* as written; when some item is not such an integer the construction
\* fails with InvalidAttribute naming rows; with no rows attribute the
\* field has the empty rows list.
C24_Rows ==
    LET a == token.attributes
    IN  (/\ BuiltToken
         /\ token.kind = "Field"
         /\ HasAttr(a, "name")
         /\ HasAttr(a, "type")
         /\ NamesBeside(a, "rows", {"name", "type"} \cup SharedAttrNames)) =>
           (AttrValue(a, "type") \in KindNames =>
              IF ~HasAttr(a, "rows")
              THEN current_field # None /\ OpenedField.rows = << >>
              ELSE LET items == Runs(AttrValue(a, "rows"), << >>)
                   IN  IF \A i \in 1..Len(items) : PositiveInt(items[i])
                       THEN /\ current_field # None
                            /\ OpenedField.rows =
                                 [i \in 1..Len(items) |-> DigitsValue(items[i], 0)]
                       ELSE /\ Failed(outcome, "InvalidAttribute")
                            /\ Unwrap(outcome).err.attribute_name = "rows")

\* The events of evs that do not belong to an element outside the vocabulary.
Known(evs) == SelectSeq(evs, LAMBDA e : e.name \notin UnknownNames)

\* C21: once a document with an element of a name outside the vocabulary
\* is tokenized, the token sequence, the default language and the
\* alternates are those of the same document without that element.
C21_Ignored ==
    pc = "tokenized" =>
        LET without == from_events(Known(events), TokenBufferNew)
        IN  /\ tb.tokens = without.tokens
            /\ tb.language = without.language
            /\ tb.alternates = without.alternates

\* The containers of the Form built from an ImplicitDoc.
ImplicitSection == BuiltForm.sections[1]

ImplicitGroup == ImplicitSection.elements[1].val

ImplicitField == ImplicitGroup.members[1]

ImplicitOption == ImplicitField.options[1]

\* C25: in the Form built from a document whose only text is plain text
\* written directly under one container, that has no label or title
\* element, the text is the label of the option or field, or the title of
\* the group or section, it is written under.
C25_ImplicitText ==
    Built =>
       \A dl \in {None, Some(EN)}, text \in {TextA, Name} :
          /\ events = ImplicitDoc(dl, "option", text) =>
                ImplicitOption.label = Some(text)
          /\ events = ImplicitDoc(dl, "field", text) =>
                ImplicitField.label = Some(text)
          /\ events = ImplicitDoc(dl, "group", text) =>
                ImplicitGroup.title = Some(text)
          /\ events = ImplicitDoc(dl, "section", text) =>
                ImplicitSection.title = Some(text)

FormLevelKinds ==
    {"Description", "MetaDescription", "DirDescription", "Keywords", "Category",
     "Link", "Script", "Style", "Index"}

\* C26: the step of parse that processes a Description, MetaDescription,
\* DirDescription, Keywords, Category, Link, Script, Style or Index token
\* leaves the open section, group, field and option, and the sections
\* already attached to the Form, as they are.
C26_FormLevelOnly ==
    [][ProcessedOneOf(FormLevelKinds) =>
          /\ UNCHANGED <<current_section, current_group, current_field,
                         current_option>>
          /\ form'.sections = form.sections]_vars

\* A Keywords token was applied to the Form while a field and an option
\* were open.
C26_Witness ==
    /\ token.kind = "Keywords"
    /\ form.keywords = Some(token.characters)
    /\ current_field # None
    /\ current_option # None

RoutedKinds == {"Title", "Label", "Instructions"}

\* The field of a container that the text of a token of kind k is for.
TextField(k) ==
    CASE k = "Title" -> "title" [] k = "Label" -> "label"
      [] k = "Instructions" -> "instructions"

Places == <<"option", "field", "group", "section", "form">>

\* The place named p before the step (None when it is not open) and after.
PlaceNow(p) ==
    CASE p = "option" -> current_option [] p = "field" -> current_field
      [] p = "group" -> current_group [] p = "section" -> current_section
      [] p = "form" -> Some(form)

PlaceNext(p) ==
    CASE p = "option" -> current_option' [] p = "field" -> current_field'
      [] p = "group" -> current_group' [] p = "section" -> current_section'
      [] p = "form" -> Some(form')

\* The step applies the text of the token t to the place p and to no other:
\* p has the text in the field for t's kind and is otherwise as before,
\* and every other place is as before.
AppliedTo(p, t) ==
    /\ TextField(t.kind) \in DOMAIN Unwrap(PlaceNow(p))
    /\ PlaceNext(p) = SetSlot(PlaceNow(p), TextField(t.kind), Some(t.characters))
    /\ \A i \in 1..Len(Places) : Places[i] # p => PlaceNext(Places[i]) = PlaceNow(Places[i])

\* The first open place among chain, a sequence of place names.
FirstOpen(chain) ==
    chain[CHOOSE i \in 1..Len(chain) :
             /\ PlaceNow(chain[i]) # None
             /\ \A j \in 1..(i - 1) : PlaceNow(chain[j]) = None]

\* The step of parse that processes a title, label or instructions token
\* that passes the language filter.
Routed == ProcessedOneOf(RoutedKinds) /\ LangMatches(language, token'.lang)

\* C27 as stated: a title, label or instructions token that passes the
\* language filter is applied to exactly one place, the nearest open one in
\* the order Option, Field, Group, Section, Form.
C27_Nearest == [][Routed => AppliedTo(FirstOpen(Places), token')]_vars

\* The places that can take the text of a token of kind k, nearest first.
Chain(k) ==
    CASE k = "Label" -> <<"option", "field">>
      [] k = "Title" -> <<"group", "section", "form">>
      [] k = "Instructions" -> <<"field", "group", "section", "form">>

\* C27 amended: a title, label or instructions token that passes the
\* language filter is applied to at most one place, the nearest open one
\* among those that have the matching field: a label to the open option,
\* else to the open field, else to nothing; a title to the open group,
\* else the open section, else the Form; instructions to the open field,
\* else the open group, else the open section, else the Form.
C27_NearestApplicable ==
    [][Routed =>
          LET chain == Chain(token'.kind)
          IN  IF \E i \in 1..Len(chain) : PlaceNow(chain[i]) # None
              THEN AppliedTo(FirstOpen(chain), token')
              ELSE \A i \in 1..Len(Places) :
                      PlaceNext(Places[i]) = PlaceNow(Places[i])]_vars

\* Instructions were applied to the open field while a group was open too.
C27_Witness ==
    /\ token.kind = "Instructions"
    /\ LangMatches(language, token.lang)
    /\ current_group # None
    /\ current_field # None
    /\ Unwrap(current_field).instructions = Some(token.characters)
    /\ Unwrap(current_group).instructions = None

\* The event dispatched by the step.
Dispatched == events'[Len(events')]

StartKindOf(n) ==
    CASE n = "section" -> "Section" [] n = "group" -> "Group"
      [] n = "field" -> "Field" [] n = "option" -> "Option"

EndKindOf(n) ==
    CASE n = "section" -> "SectionEnd" [] n = "group" -> "GroupEnd"
      [] n = "field" -> "FieldEnd" [] n = "option" -> "OptionEnd"

\* The number of tokens of kind k among the first n of toks.
CountKind(toks, n, k) == Cardinality({i \in 1..n : toks[i].kind = k})

\* C28: outside verbatim mode the start event of a section, group, field
\* or option appends exactly one start token with the event's attribute
\* list, whatever the attributes are, and its end event exactly one end
\* token with no payload; and in every prefix of the token sequence the end
\* tokens of a kind are at most as many as the start tokens of that kind,
\* and as many once every element of the stream is closed.
C28_Containers ==
    /\ [][(ev_pos' = ev_pos + 1 /\ tb.instructions = None
           /\ Dispatched.name \in ContainerNames) =>
             tb'.tokens =
                Append(tb.tokens,
                       IF Dispatched.type = "Start"
                       THEN StartTok(StartKindOf(Dispatched.name),
                                     Dispatched.attributes)
                       ELSE UnitTok(EndKindOf(Dispatched.name)))]_vars
    /\ [](\A n \in ContainerNames :
             /\ \A i \in 0..Len(tb.tokens) :
                   CountKind(tb.tokens, i, EndKindOf(n))
                      <= CountKind(tb.tokens, i, StartKindOf(n))
             /\ path = << >> =>
                   CountKind(tb.tokens, Len(tb.tokens), EndKindOf(n))
                      = CountKind(tb.tokens, Len(tb.tokens), StartKindOf(n)))

RECURSIVE Blocks(_, _, _)
\* The instructions elements of evs by nesting: depth is the number of
\* instructions elements open after the events i.. of evs, start the
\* position of the start event of the outermost one that is or was last
\* open, closed the number of outermost ones that have ended.
Blocks(evs, i, acc) ==
    IF i > Len(evs) THEN acc
    ELSE LET e == evs[i]
         IN  Blocks(evs, i + 1,
                IF e.name # "instructions" THEN acc
                ELSE IF e.type = "Start"
                THEN [acc EXCEPT !.depth = @ + 1,
                                 !.start = IF acc.depth = 0 THEN i ELSE @]
                ELSE [acc EXCEPT !.depth = @ - 1,
                                 !.closed = IF acc.depth = 1 THEN @ + 1 ELSE @])

NoBlocks == [depth |-> 0, start |-> 0, closed |-> 0]

\* C29: verbatim capture lasts as long as an instructions element is open,
\* nested ones included; the tokenizer has emitted one Instructions token
\* per outermost instructions element that has ended, and when the last
\* event read ends an outermost one, the last token is its Instructions
\* token and holds the literal form of everything between its start and
\* that end.
C29_MatchingEnd ==
    LET b == Blocks(events, 1, NoBlocks)
        last == tb.tokens[Len(tb.tokens)]
    IN  /\ b.depth > 0 => tb.instructions # None
        /\ CountKind(tb.tokens, Len(tb.tokens), "Instructions") = b.closed
        /\ (/\ events # << >>
            /\ events[Len(events)] = EndElement("instructions")
            /\ b.depth = 0) =>
              /\ last.kind = "Instructions"
              /\ last.characters =
                    WrittenFrom(SubSeq(events, 1, Len(events) - 1), b.start + 1)

\* s is the beginning of t.
IsPrefix(s, t) == Len(s) <= Len(t) /\ SubSeq(t, 1, Len(s)) = s

\* C30: a step that dispatches, while a verbatim block is open, any event
\* other than an instructions end leaves the token sequence, the default
\* language, the alternates, the captured lang and the text buffer as they
\* are and only makes the instructions buffer longer at its end.
C30_OnlyBuffer ==
    [][(/\ ev_pos' = ev_pos + 1
        /\ CaptureOpen(events, 1, 0) # 0
        /\ ~(Dispatched.type = "End" /\ Dispatched.name = "instructions")) =>
          /\ tb'.tokens = tb.tokens
          /\ tb'.language = tb.language
          /\ tb'.alternates = tb.alternates
          /\ tb'.lang = tb.lang
          /\ tb'.characters = tb.characters
          /\ tb.instructions # None
          /\ tb'.instructions # None
          /\ IsPrefix(Unwrap(tb.instructions), Unwrap(tb'.instructions))]_vars

\* After <unlisted></unlisted>, the text a and the start of an instructions
\* element with lang fr, a section start was read: it is in the buffer and
\* the tokens, the captured lang and the text buffer are as before it.
C30_Witness ==
    /\ events = <<StartElement("unlisted", << >>), EndElement("unlisted"),
                  Characters(TextA),
                  StartElement("instructions", <<Attr("lang", FR)>>),
                  StartElement("section", <<Attr("name", N1)>>)>>
    /\ ev_pos = 5
    /\ tb.tokens = <<UnitTok("Unlisted")>>
    /\ tb.lang = Some(FR)
    /\ tb.characters = Some(TextA)
    /\ tb.instructions = Some(Written(events[5]))

\* C31: when the end event of a leaf text element is processed outside a
\* verbatim block and at most one Characters event occurred between its
\* start and its end, the text of the token emitted is the text of that
\* event, or empty when there is none: text read before the element's start
\* is not part of it.
C31_OwnText ==
    (/\ pc = "tokenize"
     /\ ev_pos > 0
     /\ events[ev_pos].type = "End"
     /\ events[ev_pos].name \in TextElements
     /\ LeafStart(ev_pos) # {}
     /\ \A i \in 1..Len(path) : path[i] # "instructions") =>
        \A j \in LeafStart(ev_pos) :
           Cardinality({k \in j..ev_pos : events[k].type = "Characters"}) <= 1 =>
              /\ tb.tokens # << >>
              /\ LastToken.characters = TextBetween(events, j, ev_pos)

\* A written value that is an unsigned whole number of the 16-bit range.
WholeU16(s) ==
    /\ s # << >>
    /\ \A i \in 1..Len(s) : s[i] \in Digits
    /\ DigitsValue(s, 0) \in 0..U16Max

\* C32: a field built with no length attribute has length 0; a field built
\* with a length attribute has the number written, which is an unsigned
\* whole number of the 16-bit range, and such a value never stands in the
\* way of the construction; any other length value makes the construction
\* fail with InvalidAttribute naming length (where no attribute written
\* earlier is rejected first).
C32_Length ==
    (BuiltToken /\ token.kind = "Field") =>
       LET a == token.attributes
           before == \A i \in 1..Len(a) :
                        (\A j \in 1..i : a[j].name # "length") =>
                           Accepted("Field", a[i])
           beside == \A i \in 1..Len(a) :
                        a[i].name # "length" => Accepted("Field", a[i])
       IN  /\ (current_field # None /\ ~HasAttr(a, "length")) =>
                 OpenedField.length = 0
           /\ (current_field # None /\ HasAttr(a, "length")) =>
                 /\ WholeU16(AttrValue(a, "length"))
                 /\ OpenedField.length = DigitsValue(AttrValue(a, "length"), 0)
           /\ (/\ HasAttr(a, "length") /\ WholeU16(AttrValue(a, "length"))
               /\ HasAttr(a, "name") /\ HasAttr(a, "type") /\ beside) =>
                 current_field # None
           /\ (/\ HasAttr(a, "length") /\ ~WholeU16(AttrValue(a, "length"))
               /\ before) =>
                 /\ Failed(outcome, "InvalidAttribute")
                 /\ Unwrap(outcome).err.attribute_name = "length"

\* A field with length 65535 was built with that length, the largest
\* value of the range.
C32_Witness ==
    /\ BuiltToken
    /\ token = StartTok("Field", <<Attr("name", N1), Attr("type", T_text),
                                   Attr("length", <<"6", "5", "5", "3", "5">>)>>)
    /\ current_field # None
    /\ OpenedField.length = U16Max

\* The tokens of kind k of toks, in order.
OfKind(toks, k) == SelectSeq(toks, LAMBDA t : t.kind = k)

\* C33: the Form of a build that succeeded has as embedded_scripts the
\* texts of the Script tokens of the sequence, one entry per token, in
\* token order, whatever the target language and the containers open.
C33_Scripts ==
    Built =>
       LET scripts == OfKind(tb.tokens, "Script")
       IN  BuiltForm.embedded_scripts =
              [i \in 1..Len(scripts) |-> scripts[i].characters]

\* Script b, a field start, script a and script a again were built into a
\* Form with the scripts b, a, a.
C33_Witness ==
    /\ Built
    /\ tb.tokens = <<TextTok("Script", TextB),
                     StartTok("Field", <<Attr("name", N1), Attr("type", T_text)>>),
                     TextTok("Script", TextA), TextTok("Script", TextA)>>
    /\ BuiltForm.embedded_scripts = <<TextB, TextA, TextA>>

\* C34: parse over a fixed finite token sequence is a single pass: while
\* it runs it has returned nothing, each step either processes the next
\* token of the sequence, in order, or returns at the end of the sequence;
\* once it has returned nothing happens any more and the value returned is
\* either Ok with a Form or Err with an error; and it does return.
C34_SinglePass ==
    /\ [][IF pc = "parse"
          THEN /\ tb' = tb
               /\ \/ /\ pos < Len(tb.tokens)
                     /\ pos' = pos + 1
                     /\ token' = tb.tokens[pos + 1]
                     /\ pc' = "done" <=> (outcome' # None /\ ~Unwrap(outcome').ok)
                  \/ /\ pos = Len(tb.tokens)
                     /\ pos' = pos
                     /\ pc' = "done"
                     /\ outcome' # None /\ Unwrap(outcome').ok
          ELSE FALSE]_vars
    /\ [](pc = "parse" => outcome = None)
    /\ [](pc = "done" =>
             /\ outcome # None
             /\ Unwrap(outcome).ok => DOMAIN Unwrap(outcome) = {"ok", "val"}
             /\ ~Unwrap(outcome).ok => DOMAIN Unwrap(outcome) = {"ok", "err"})
    /\ <>(pc = "done")

\* A sequence of four tokens whose second is a stray SectionEnd was given
\* up at that token: two tokens processed, an error returned.
C34_Witness ==
    /\ pc = "done"
    /\ Len(tb.tokens) = 4
    /\ tb.tokens[2] = UnitTok("SectionEnd")
    /\ pos = 2
    /\ Failed(outcome, "MismatchedTags")

\* C35: a Label token processed right after an Option token that was
\* skipped (its lang excludes the target), before that option's OptionEnd,
\* changes neither the label of the open field nor any other container nor
\* the form.
C35_SkippedInert ==
    [][(/\ pos >= 1
        /\ Excluded(token)
        /\ skip_option
        /\ current_field # None
        /\ Processed("Label"))
          => <<form, slots>>' = <<form, slots>>]_vars

\* C36: an option whose lang attribute is "*" or absent is unrestricted:
\* whatever the document's default language and whatever the target
\* language, the build of a field whose first option has lang="*" or no
\* lang succeeds and that option is the first of the field's options.
C36_UnrestrictedOption ==
    \A dl \in DocLangs, l1 \in {None, Some(STAR)}, l2 \in DocLangs :
        (pc = "done" /\ events = OptionDoc(dl, l1, l2)) =>
            /\ outcome # None
            /\ Unwrap(outcome).ok
            /\ Len(BuiltForm.sections[1].elements[1].val.options) >= 1
            /\ BuiltForm.sections[1].elements[1].val.options[1].name = O1

\* The text of the last token of the kinds given that passes the filter,
\* None when no token of these kinds passes.
LastPassing(kinds) ==
    IF OnForm(kinds) = {} THEN None ELSE Some(LastOf(OnForm(kinds)))

\* C37: a Description token that passes the language filter sets
\* description, meta_description and dir_description of the Form to its
\* text; a MetaDescription or DirDescription token that passes sets its own
\* field and leaves the other two; a token that does not pass sets none.
\* So in the built Form description is the text of the last passing
\* Description, meta_description that of the last passing token among
\* Description and MetaDescription, dir_description that of the last passing
\* token among Description and DirDescription.
C37_Descriptions ==
    /\ [][/\ (Processed("Description") /\ Passes(token')) =>
                /\ form'.description = Some(token'.characters)
                /\ form'.meta_description = Some(token'.characters)
                /\ form'.dir_description = Some(token'.characters)
          /\ (Processed("MetaDescription") /\ Passes(token')) =>
                /\ form'.meta_description = Some(token'.characters)
                /\ form'.description = form.description
                /\ form'.dir_description = form.dir_description
          /\ (Processed("DirDescription") /\ Passes(token')) =>
                /\ form'.dir_description = Some(token'.characters)
                /\ form'.description = form.description
                /\ form'.meta_description = form.meta_description
          /\ (ProcessedOneOf(DescKinds) /\ ~Passes(token')) => form' = form]_vars
    /\ [](Built =>
            /\ BuiltForm.description = LastPassing({"Description"})
            /\ BuiltForm.meta_description =
                  LastPassing({"Description", "MetaDescription"})
            /\ BuiltForm.dir_description =
                  LastPassing({"Description", "DirDescription"}))

\* A meta-description a and a dir-description a written before the
\* description b: the built Form has b in all three fields.
C37_Witness ==
    /\ Built
    /\ tb.tokens = <<LangTok("MetaDescription", TextA, None),
                     LangTok("DirDescription", TextA, None),
                     LangTok("Description", TextB, None)>>
    /\ BuiltForm.description = Some(TextB)
    /\ BuiltForm.meta_description = Some(TextB)
    /\ BuiltForm.dir_description = Some(TextB)

RECURSIVE Flatten(_)
\* The concatenation of the sequences of ss.
Flatten(ss) == IF ss = << >> THEN << >> ELSE Head(ss) \o Flatten(Tail(ss))

\* The elements of a section that are of the variant tag.
Variant(elements, tag) ==
    LET sel == SelectSeq(elements, LAMBDA e : e.tag = tag)
    IN  [i \in 1..Len(sel) |-> sel[i].val]

FormGroups(f) ==
    Flatten([i \in 1..Len(f.sections) |-> Variant(f.sections[i].elements, "Group")])

FormFields(f) ==
    Flatten([i \in 1..Len(f.sections) |-> Variant(f.sections[i].elements, "Field")])
    \o Flatten([i \in 1..Len(FormGroups(f)) |-> FormGroups(f)[i].members])

FormOptions(f) ==
    Flatten([i \in 1..Len(FormFields(f)) |-> FormFields(f)[i].options])

\* The Option start tokens of toks whose lang attribute passes the filter.
PassingOptions(toks) ==
    {i \in 1..Len(toks) :
        /\ toks[i].kind = "Option"
        /\ (FindLang(toks[i].attributes) = None
            \/ FindLang(toks[i].attributes) = language)}

\* The start token at i of toks takes the slot of its kind: every Section,
\* Group and Field start does, an Option start when its lang passes.
TakesSlot(toks, i) ==
    /\ toks[i].kind \in StartKinds
    /\ toks[i].kind = "Option" => i \in PassingOptions(toks)

\* The end token on_end emits for the element whose start token is s.
EndOf(s) == UnitTok(EndKindOf(CHOOSE n \in ContainerNames : StartKindOf(n) = s.kind))

\* The element started at i of toks is not yet closed before position j:
\* from i to any place before j the start tokens of its kind outnumber the
\* end tokens of its kind.
OpenUntil(toks, i, j) ==
    \A m \in i..(j - 1) :
        CountKind(toks, m, toks[i].kind) - CountKind(toks, i - 1, toks[i].kind)
           > CountKind(toks, m, EndOf(toks[i]).kind)
                - CountKind(toks, i - 1, EndOf(toks[i]).kind)

\* Some start token of toks overwrites the open slot of its kind: it takes
\* the slot while a container of its kind that took it is still open.
OverwritesOpen(toks) ==
    \E i \in 1..Len(toks) : \E j \in (i + 1)..Len(toks) :
        /\ toks[j].kind = toks[i].kind
        /\ TakesSlot(toks, i)
        /\ TakesSlot(toks, j)
        /\ OpenUntil(toks, i, j)

\* C38: when parse succeeds on the token sequence of well-nested markup,
\* the returned Form holds as many sections, groups and fields as the
\* sequence has Section, Group and Field start tokens, and as many options
\* as it has Option start tokens whose lang passes the filter; and parse
\* fails on every sequence in which a start token overwrites the open slot
\* of its kind.
C38_NoneLost ==
    (pc = "done" /\ outcome # None) =>
        LET toks == tb.tokens
            n == Len(toks)
        IN  /\ Unwrap(outcome).ok =>
                /\ Len(BuiltForm.sections) = CountKind(toks, n, "Section")
                /\ Len(FormGroups(BuiltForm)) = CountKind(toks, n, "Group")
                /\ Len(FormFields(BuiltForm)) = CountKind(toks, n, "Field")
                /\ Len(FormOptions(BuiltForm)) = Cardinality(PassingOptions(toks))
            /\ OverwritesOpen(toks) => ~Unwrap(outcome).ok

\* A section with a field with an option, built for en: one of each in
\* the Form.
C38_Witness ==
    /\ Built
    /\ language = Some(EN)
    /\ tb.tokens = <<StartTok("Section", <<Attr("name", S1)>>),
                     StartTok("Field", <<Attr("name", F1), Attr("type", T_text)>>),
                     StartTok("Option", <<Attr("name", O1)>>),
                     UnitTok("OptionEnd"), UnitTok("FieldEnd"),
                     UnitTok("SectionEnd")>>
    /\ Len(BuiltForm.sections) = 1
    /\ Len(FormFields(BuiltForm)) = 1
    /\ Len(FormOptions(BuiltForm)) = 1

\* The error a container of kind k raises for the attribute a it rejects.
RejectionKind(k, a) ==
    IF k = "Field" /\ a.name = "type" THEN "InvalidFieldType"
    ELSE IF k = "Group" /\ a.name = "type" THEN "InvalidGroupType"
    ELSE "InvalidAttribute"

\* C39: the construction of a container from a start token checks the
\* attributes in the order written: when some attribute is rejected the
\* build fails with the error of the first rejected one (InvalidAttribute
\* naming it, InvalidFieldType or InvalidGroupType), whether or not a name
\* is present; when every attribute is accepted a section, field or option
\* without a name fails with UnnamedElement, also when the field has no
\* type; a named field without a type fails with InvalidFieldType; and
\* otherwise the construction raises no error.
C39_ErrorPrecedence ==
    (BuiltToken /\ token.kind \in StartKinds /\ ~Excluded(token)) =>
        LET k == token.kind
            attrs == token.attributes
            rejected == {i \in 1..Len(attrs) : ~Accepted(k, attrs[i])}
        IN  IF rejected # {}
            THEN LET a == attrs[Min(rejected)]
                 IN  /\ Failed(outcome, RejectionKind(k, a))
                     /\ RejectionKind(k, a) = "InvalidAttribute" =>
                           Unwrap(outcome).err.attribute_name = a.name
            ELSE IF k # "Group" /\ ~HasAttr(attrs, "name")
            THEN Failed(outcome, "UnnamedElement")
            ELSE IF k = "Field" /\ ~HasAttr(attrs, "type")
            THEN Failed(outcome, "InvalidFieldType")
            ELSE Running(outcome) \/ Unwrap(outcome).ok

\* A field with neither name nor type was refused as unnamed, and the
\* build returned that error.
C39_Witness ==
    /\ BuiltToken
    /\ token = StartTok("Field", <<Attr("placeholder", TextA)>>)
    /\ Failed(outcome, "UnnamedElement")
    /\ pc = "done"

====
